---- MODULE Spec2Model ----
(***************************************************************************)
(* Webhook ingestion, delivery deduplication and the in-memory review      *)
(* queue of the Jules code reviewer (src/src/webhook.py,                   *)
(* src/src/queue/__init__.py, src/src/utils/security.py,                   *)
(* src/src/config.py, src/src/main.py).                                    *)
(*                                                                         *)
(* The service runs on one asyncio event loop.  A step of the model is     *)
(* the code one coroutine runs between two suspension points: nothing      *)
(* else runs in between.  receive_webhook suspends once, at                *)
(* `await request.body()`; `await enqueue_review_job(job)` never suspends  *)
(* because asyncio.Queue() is unbounded, so put() returns at once.         *)
(***************************************************************************)
EXTENDS Integers, Sequences, FiniteSets, TLC

None == "None"                  \* Python's None (header, field or handler absent)

(***************************************************************************)
(* Bounds of the model.                                                    *)
(***************************************************************************)
MaxTicks == 3                   \* clock advances
MaxJobs == 3                    \* jobs ever enqueued
MaxInflight == 1                \* requests suspended at `await request.body()`
MaxTasks == 3                   \* consumer tasks ever created
MaxFetches == 3                 \* installation token requests sent to GitHub

(***************************************************************************)
(* Program constants.                                                      *)
(***************************************************************************)
DELIVERY_TTL_SECONDS == 60 * 60

supported_pr_actions == {"opened", "reopened", "synchronize", "ready_for_review"}

(***************************************************************************)
(* Input domains.                                                          *)
(***************************************************************************)
Deliveries == {"d1", "d2", "d3"}
DeliveryHeaders == {None} \cup Deliveries
EventHeaders == {None, "push", "pull_request", "issues"}
Secrets == {"s1", "s2"}
Actions == {"opened", "closed"}

\* Clock advances: half a TTL, so that an entry is seen at ages below, at and
\* above DELIVERY_TTL_SECONDS.
TickSteps == {DELIVERY_TTL_SECONDS \div 2}

\* A webhook payload (a JSON object).  An integer field that is absent, null or 0
\* is 0 and a string field that is absent, null or "" is "": the code tests
\* these fields with `not x`, which does not tell them apart.
Payloads ==
    [action : Actions, installation_id : {0, 7}, full_name : {"", "o/r"},
     number : {0, 1}]

EmptyPayload == [action |-> "closed", installation_id |-> 0, full_name |-> "", number |-> 0]

\* A raw request body: the text of a JSON object, or bytes json.loads rejects.
Garbage == [valid_json |-> FALSE, payload |-> EmptyPayload]
RawBodies == {[valid_json |-> TRUE, payload |-> p] : p \in Payloads} \cup {Garbage}

\* Settings as loaded once at startup (get_settings is lru_cached).
SettingsValues ==
    [github_webhook_secret : {None, "s1"}, other_credentials : BOOLEAN]

VARIABLES
    settings,           \* Settings: the webhook secret and whether the other credentials are set
    handler,            \* _QUEUE._handler: None or the configured handler
    now,                \* time.time()
    ticks,              \* clock advances so far (bounds the model)
    delivery_cache,     \* _delivery_cache: delivery id -> timestamp, -1 when absent
    inflight,           \* requests suspended at `await request.body()`, or at the put
                        \* of the enqueue once checked_at holds the time of their
                        \* duplicate check
    jobs,               \* every ReviewJob created and enqueued so far, in enqueue order
    queue,              \* _QUEUE._queue: ids (indices into jobs) of the waiting jobs
    tasks,              \* every consumer task created so far
    worker,             \* _QUEUE._worker: index into tasks, 0 for None
    shutdown_wait,      \* the task a running shutdown() awaits, 0 when none runs
    shutdown_called,    \* whether shutdown() was ever called
    response,           \* the HTTP response sent by this step, NoResponse otherwise
    answered,           \* the request (its headers) this step answered, NoRequest otherwise
    handed,             \* job ids in the order they were handed to the handler
    jstatus             \* per job: queued, running, returned, raised, cancelled, dropped

\* GitHubInstallationClient (src/src/github_client.py), as one ReviewProcessor
\* invocation uses it: one call after the other.
VARIABLES
    installation_tokens,    \* self._installation_tokens: installation id -> token, NoToken when absent
    token_call,             \* the id whose token a suspended get_installation_token fetches, 0 when none
    token_result,           \* what get_installation_token returned or raised in this step
    token_error,            \* the GitHubAPIError it raised, NoError otherwise
    fetches                 \* access_tokens requests sent to GitHub so far

github_vars == <<installation_tokens, token_call, token_result, token_error, fetches>>

\* JulesClient.analyze (src/src/jules_client.py), one call at a time.
VARIABLES
    jules_pc,           \* where analyze is: idle, session, sleep, poll, done
    attempt,            \* _poll_for_response's loop variable (0 for the first attempt)
    session_requests,   \* POST /sessions requests sent by this call
    poll_requests,      \* GET activities requests sent by this call
    not_found,          \* 404 answers this call's polling has retried
    slept,              \* milliseconds of the asyncio.sleep the call is in, 0 outside one
    response_data,      \* the agent's texts in the page the latest poll was answered with
    jules_result        \* what analyze returned or raised

jules_vars ==
    <<jules_pc, attempt, session_requests, poll_requests, not_found, slept, response_data,
      jules_result>>

\* ReviewProcessor._publish_results (src/src/services/review_processor.py).
VARIABLES
    pub_pc,             \* where _publish_results is: idle, posting, done
    pub_context,        \* the review context it publishes for
    pub_analysis,       \* the analysis it publishes
    posted,             \* the requests sent to GitHub by this call, in order
    created,            \* the reviews and comments GitHub created for them, in order
    to_post,            \* the requests this call has still to send
    pub_result          \* none, returned (all sent) or caught (GitHubAPIError logged)

publish_vars == <<pub_pc, pub_context, pub_analysis, posted, created, to_post, pub_result>>

\* ReviewProcessor.__call__ (src/src/services/review_processor.py).
VARIABLES
    proc_pc,            \* where the invocation is: idle, context, analyze, publish, done
    proc_job,           \* the job it was called for, 0 before the first call
    proc_context,       \* the review context it built
    proc_outcome,       \* none, returned or raised
    proc_step           \* the step of the ReviewProcessorError it raised, "" otherwise

call_vars == <<proc_pc, proc_job, proc_context, proc_outcome, proc_step>>

\* The texts the processor's helpers turn into one another: GitHub's file list
\* into the context's files (review_context.py: _serialize_files) and those into
\* the prompt's diff sections (jules_client.py: _format_files_for_prompt).
VARIABLES
    files_data,         \* the file entries of GitHub's answer
    context_files,      \* the files of the review context built from them
    prompt,             \* the Diffs sections of the prompt, once it is rendered
    comments_data,      \* the "comments" array of the agent's JSON
    parsed              \* what _parse_analysis made of it

text_vars == <<files_data, context_files, prompt, comments_data, parsed>>

\* GitHubInstallationClient.list_pull_request_files (src/src/github_client.py),
\* one call at a time.
VARIABLES
    list_pc,            \* where the call is: idle, token, page, done
    list_page,          \* its local `page`
    list_files,         \* its local `files`
    list_requests,      \* the params of the files requests this call has sent, in order
    list_batches,       \* the lists GitHub answered them with, in order
    list_result         \* none, returned or raised

list_vars ==
    <<list_pc, list_page, list_files, list_requests, list_batches, list_result>>

\* The state of the webhook endpoint and the queue.
service_vars ==
    <<settings, handler, now, ticks, delivery_cache, inflight, jobs, queue, tasks,
      worker, shutdown_wait, shutdown_called, response, answered, handed, jstatus>>

\* The state of what a ReviewProcessor invocation works with.
processor_vars == <<github_vars, jules_vars, publish_vars, call_vars, text_vars, list_vars>>

vars ==
    <<settings, handler, now, ticks, delivery_cache, inflight, jobs, queue, tasks,
      worker, shutdown_wait, shutdown_called, response, answered, handed, jstatus,
      processor_vars>>

queue_vars == <<jobs, queue, tasks, worker, handed, jstatus>>

(***************************************************************************)
(* HTTP responses.                                                         *)
(***************************************************************************)
NoResponse == [code |-> 0, status |-> "none", reason |-> None]
NoRequest == [delivery_id |-> None, event |-> None]
Silent == response' = NoResponse /\ answered' = NoRequest
Accepted == [code |-> 200, status |-> "accepted", reason |-> None]
Ignored(reason) == [code |-> 200, status |-> "ignored", reason |-> reason]
HttpError(code, detail) == [code |-> code, status |-> "error", reason |-> detail]

(***************************************************************************)
(* src/src/utils/security.py                                               *)
(***************************************************************************)
\* HMAC-SHA256 as a collision-free function of the secret and the payload.
build_github_signature(secret, payload) == <<"sha256", secret, payload>>

\* A missing (or empty) X-Hub-Signature-256 header is <<>>.
NoSignature == <<>>

verify_github_signature(secret, payload, raw_signature) ==
    IF raw_signature = NoSignature
    THEN FALSE
    ELSE build_github_signature(secret, payload) = raw_signature

\* The signature headers a request with this body may carry: none, the body
\* signed with any secret, or the signature of another body.
SignatureHeaders(raw_body) ==
    {NoSignature}
        \cup {build_github_signature(s, raw_body) : s \in Secrets}
        \cup {build_github_signature(s, IF raw_body = Garbage
                                        THEN [valid_json |-> TRUE, payload |-> EmptyPayload]
                                        ELSE Garbage) : s \in Secrets}

(***************************************************************************)
(* src/src/config.py                                                       *)
(***************************************************************************)
\* Settings.require_code_review_credentials: TRUE when it returns, FALSE when it
\* raises SettingsError.
require_code_review_credentials(s) ==
    s.other_credentials /\ s.github_webhook_secret # None

(***************************************************************************)
(* src/src/webhook.py: the delivery cache                                  *)
(***************************************************************************)
NoEntry == 0 - 1

\* Mutant: an entry exactly one TTL old is pruned as well.
ExpiredInclusive(timestamp, expiry_threshold) == timestamp <= expiry_threshold

\* _prune_delivery_cache's test of one entry (line 42).
Expired(timestamp, expiry_threshold) == timestamp < expiry_threshold

prune_delivery_cache(cache, t) ==
    [d \in Deliveries |->
        IF cache[d] # NoEntry /\ Expired(cache[d], t - DELIVERY_TTL_SECONDS)
        THEN NoEntry
        ELSE cache[d]]

mark_delivery(cache, delivery_id, t) == [cache EXCEPT ![delivery_id] = t]

\* Mutant: membership is tested without pruning first.
is_duplicate_unpruned(cache, delivery_id, t) == cache[delivery_id] # NoEntry

\* _is_duplicate prunes, then tests membership in the pruned cache.
is_duplicate(cache, delivery_id, t) ==
    prune_delivery_cache(cache, t)[delivery_id] # NoEntry

(***************************************************************************)
(* src/src/webhook.py: the normalizer.  "ok" is a returned payload,        *)
(* "ignore" is IgnoreEventError and "invalid" is ValueError.               *)
(***************************************************************************)
\* Mutant: the installation id is not required.
build_push_job_unchecked(payload) ==
    IF payload.full_name = "" THEN "invalid" ELSE "ok"

build_push_job(payload) ==
    IF payload.installation_id = 0 THEN "invalid"
    ELSE IF payload.full_name = "" THEN "invalid"
    ELSE "ok"

\* Mutant: the fields are validated before the action is looked at.
build_pull_request_job_fields_first(payload) ==
    IF payload.installation_id = 0 THEN "invalid"
    ELSE IF payload.full_name = "" THEN "invalid"
    ELSE IF payload.number = 0 THEN "invalid"
    ELSE IF payload.action \notin supported_pr_actions THEN "ignore"
    ELSE "ok"

build_pull_request_job(payload) ==
    IF payload.action \notin supported_pr_actions THEN "ignore"
    ELSE IF payload.installation_id = 0 THEN "invalid"
    ELSE IF payload.full_name = "" THEN "invalid"
    ELSE IF payload.number = 0 THEN "invalid"
    ELSE "ok"

build_job_payload(event, payload) ==
    IF event = "push" THEN build_push_job(payload)
    ELSE IF event = "pull_request" THEN build_pull_request_job(payload)
    ELSE "ignore"


(***************************************************************************)
(* src/src/queue/__init__.py: _ReviewQueue                                 *)
(***************************************************************************)
\* A consumer task: "new" (created by create_task, not yet run), "idle"
\* (suspended in `await self._queue.get()`), "busy" (suspended inside
\* `await self._handler(job)`), "done".  must_cancel: cancel() was called and the
\* CancelledError is not yet delivered.
NewTask == [state |-> "new", job |-> 0, must_cancel |-> FALSE]

InSeq(x, s) == \E i \in DOMAIN s : s[i] = x

Remove(s, i) == [k \in 1..(Len(s) - 1) |-> IF k < i THEN s[k] ELSE s[k + 1]]

\* Mutant: a task is created at every enqueue.
worker_missing_always(w, ts) == TRUE

\* _ensure_worker's test: no task registered, or the registered one has finished.
worker_missing(w, ts) == w = 0 \/ ts[w].state = "done"

\* _ensure_worker: the tasks and the registered worker after the call.
ensure_worker(w, ts) ==
    IF worker_missing(w, ts)
    THEN [tasks |-> Append(ts, NewTask), worker |-> Len(ts) + 1]
    ELSE [tasks |-> ts, worker |-> w]

\* Mutant: the job is put at the head.
queue_put_front(q, job_id) == <<job_id>> \o q

\* asyncio.Queue(): maxsize is 0, the queue is unbounded (line 20).
QUEUE_MAXSIZE == 0

\* Mutant: the queue holds one job at most.
full_at_one(q) == Len(q) >= 1

\* asyncio.Queue.full: never, with maxsize 0.  put suspends only while the
\* queue is full; otherwise it returns without giving up the event loop.
full(q) == QUEUE_MAXSIZE > 0 /\ Len(q) >= QUEUE_MAXSIZE

\* asyncio.Queue.put once there is room: put_nowait, at the tail.
queue_put(q, job_id) == Append(q, job_id)

\* What the handler's end makes of the job: the worker loop logs an exception
\* and goes on either way.
job_outcomes == {"returned", "raised"}

\* _worker_loop from `await self._queue.get()` to its next suspension, with q
\* waiting and the jobs' states js.  get() does not suspend while the queue holds
\* an item: with no handler every waiting job is dropped in one go; with a
\* handler the head is handed to it and the task suspends inside the handler.
worker_loop(q, js, h) ==
    IF q = <<>>
    THEN [queue |-> q, handed |-> <<>>, jstatus |-> js, state |-> "idle", job |-> 0]
    ELSE IF h = None
    THEN [queue |-> <<>>, handed |-> <<>>,
          jstatus |-> [j \in DOMAIN js |-> IF InSeq(j, q) THEN "dropped" ELSE js[j]],
          state |-> "idle", job |-> 0]
    ELSE [queue |-> Tail(q), handed |-> <<Head(q)>>,
          jstatus |-> [js EXCEPT ![Head(q)] = "running"],
          state |-> "busy", job |-> Head(q)]

\* The task resumes at the top of the loop.
RunLoop(t, q, js) ==
    LET r == worker_loop(q, js, handler)
    IN  /\ tasks' = [tasks EXCEPT ![t] = [state |-> r.state, job |-> r.job,
                                          must_cancel |-> FALSE]]
        /\ queue' = r.queue
        /\ jstatus' = r.jstatus
        /\ handed' = handed \o r.handed

\* A created task starts, or a task waiting in get() is woken by a put.
WorkerStep(t) ==
    /\ t \in DOMAIN tasks
    /\ ~tasks[t].must_cancel
    /\ \/ tasks[t].state = "new"
       \/ tasks[t].state = "idle" /\ queue # <<>>
    /\ RunLoop(t, queue, jstatus)
    /\ Silent
    /\ UNCHANGED <<settings, handler, now, ticks, delivery_cache, inflight, jobs,
                   worker, shutdown_wait, shutdown_called>>
    /\ UNCHANGED processor_vars

\* Mutant: an exception of the handler ends the consumer task.
HandlerDoneDies(t, outcome) ==
    /\ t \in DOMAIN tasks
    /\ tasks[t].state = "busy"
    /\ ~tasks[t].must_cancel
    /\ IF outcome = "raised"
       THEN /\ tasks' = [tasks EXCEPT ![t] = [state |-> "done", job |-> 0,
                                               must_cancel |-> FALSE]]
            /\ jstatus' = [jstatus EXCEPT ![tasks[t].job] = outcome]
            /\ UNCHANGED <<queue, handed>>
       ELSE RunLoop(t, queue, [jstatus EXCEPT ![tasks[t].job] = outcome])
    /\ Silent
    /\ UNCHANGED <<settings, handler, now, ticks, delivery_cache, inflight, jobs,
                   worker, shutdown_wait, shutdown_called>>
    /\ UNCHANGED processor_vars

\* Mutant: a job whose handler raised is put back in the queue.
HandlerDoneRequeue(t, outcome) ==
    /\ t \in DOMAIN tasks
    /\ tasks[t].state = "busy"
    /\ ~tasks[t].must_cancel
    /\ RunLoop(t, IF outcome = "raised" THEN Append(queue, tasks[t].job) ELSE queue,
               [jstatus EXCEPT ![tasks[t].job] = outcome])
    /\ Silent
    /\ UNCHANGED <<settings, handler, now, ticks, delivery_cache, inflight, jobs,
                   worker, shutdown_wait, shutdown_called>>
    /\ UNCHANGED processor_vars

\* The handler returns or raises an Exception: lines 56-66, task_done(), and the
\* loop goes on without suspending if a job waits.
HandlerDone(t, outcome) ==
    /\ t \in DOMAIN tasks
    /\ tasks[t].state = "busy"
    /\ ~tasks[t].must_cancel
    /\ RunLoop(t, queue, [jstatus EXCEPT ![tasks[t].job] = outcome])
    /\ Silent
    /\ UNCHANGED <<settings, handler, now, ticks, delivery_cache, inflight, jobs,
                   worker, shutdown_wait, shutdown_called>>
    /\ UNCHANGED processor_vars

\* The CancelledError of cancel() is thrown into the task where it is suspended.
\* It is a BaseException: `except Exception` does not catch it, the finally
\* clause calls task_done(), and the task ends.
WorkerCancelled(t) ==
    /\ t \in DOMAIN tasks
    /\ tasks[t].must_cancel
    /\ tasks[t].state # "done"
    /\ tasks' = [tasks EXCEPT ![t] = [state |-> "done", job |-> 0, must_cancel |-> FALSE]]
    /\ jstatus' = IF tasks[t].state = "busy"
                  THEN [jstatus EXCEPT ![tasks[t].job] = "cancelled"]
                  ELSE jstatus
    /\ Silent
    /\ UNCHANGED <<settings, handler, now, ticks, delivery_cache, inflight, jobs,
                   queue, worker, shutdown_wait, shutdown_called, handed>>
    /\ UNCHANGED processor_vars

\* configure_handler
ConfigureHandler(h) ==
    /\ h # handler
    /\ handler' = h
    /\ Silent
    /\ UNCHANGED <<settings, now, ticks, delivery_cache, inflight, jobs, queue, tasks,
                   worker, shutdown_wait, shutdown_called, handed, jstatus>>
    /\ UNCHANGED processor_vars

\* shutdown up to `await self._worker`.  With no worker it returns; awaiting a
\* task that is done does not suspend, so the finally clause runs at once.
ShutdownBegin ==
    /\ shutdown_wait = 0
    /\ shutdown_called' = TRUE
    /\ IF worker = 0
       THEN UNCHANGED <<tasks, worker, shutdown_wait>>
       ELSE IF tasks[worker].state = "done"
       THEN worker' = 0 /\ UNCHANGED <<tasks, shutdown_wait>>
       ELSE /\ tasks' = [tasks EXCEPT ![worker].must_cancel = TRUE]
            /\ shutdown_wait' = worker
            /\ UNCHANGED worker
    /\ Silent
    /\ UNCHANGED <<settings, handler, now, ticks, delivery_cache, inflight, jobs,
                   queue, handed, jstatus>>
    /\ UNCHANGED processor_vars

\* shutdown resumes once the awaited task is done: `self._worker = None`.
ShutdownEnd ==
    /\ shutdown_wait # 0
    /\ tasks[shutdown_wait].state = "done"
    /\ worker' = 0
    /\ shutdown_wait' = 0
    /\ Silent
    /\ UNCHANGED <<settings, handler, now, ticks, delivery_cache, inflight, jobs,
                   queue, tasks, shutdown_called, handed, jstatus>>
    /\ UNCHANGED processor_vars


(***************************************************************************)
(* src/src/queue/__init__.py: enqueue_review_job                           *)
(***************************************************************************)
\* _ReviewQueue.enqueue: _ensure_worker, then put.  One step: neither suspends.
QueueEnqueue(job) ==
    LET e == ensure_worker(worker, tasks)
    IN  /\ Len(jobs) < MaxJobs
        /\ Len(e.tasks) <= MaxTasks
        /\ tasks' = e.tasks
        /\ worker' = e.worker
        /\ jobs' = Append(jobs, job)
        /\ queue' = queue_put(queue, Len(jobs) + 1)
        /\ jstatus' = Append(jstatus, "queued")
        /\ UNCHANGED handed

\* enqueue with the queue full: the worker is ensured, then `await
\* self._queue.put(job)` suspends (lines 69-70).
QueuePutSuspends ==
    LET e == ensure_worker(worker, tasks)
    IN  /\ Len(e.tasks) <= MaxTasks
        /\ tasks' = e.tasks
        /\ worker' = e.worker
        /\ UNCHANGED <<jobs, queue, handed, jstatus>>

\* A suspended put resumes once there is room (line 70).
QueuePutResumes(job) ==
    /\ ~full(queue)
    /\ Len(jobs) < MaxJobs
    /\ jobs' = Append(jobs, job)
    /\ queue' = queue_put(queue, Len(jobs) + 1)
    /\ jstatus' = Append(jstatus, "queued")
    /\ UNCHANGED <<tasks, worker, handed>>

\* Mutant: the enqueue waits until no handler invocation is in progress.
EnqueueReviewJobJoined(job) ==
    /\ \A t \in DOMAIN tasks : tasks[t].state # "busy"
    /\ QueueEnqueue(job)

\* enqueue_review_job: the job is a ReviewJob already (_coerce_job returns it).
EnqueueReviewJob(job) == QueueEnqueue(job)

(***************************************************************************)
(* src/src/webhook.py: receive_webhook                                     *)
(***************************************************************************)
\* The headers of a request.
RequestOf(req) == [delivery_id |-> req.delivery_id, event |-> req.event]

\* receive_webhook up to `await request.body()` (lines 145-162): the delivery and
\* event headers are read and the credentials are required.  At most `limit`
\* requests are suspended at a time.
ReceiveWebhookOf(limit, delivery_id, event) ==
    /\ Len(inflight) < limit
    /\ IF require_code_review_credentials(settings)
       THEN /\ inflight' = Append(inflight, [delivery_id |-> delivery_id, event |-> event,
                                             checked_at |-> NoEntry])
            /\ Silent
       ELSE /\ response' = HttpError(500, "Configuration error")
            /\ answered' = [delivery_id |-> delivery_id, event |-> event]
            /\ UNCHANGED inflight
    /\ UNCHANGED <<settings, handler, now, ticks, delivery_cache, jobs, queue, tasks,
                   worker, shutdown_wait, shutdown_called, handed, jstatus>>
    /\ UNCHANGED processor_vars

ReceiveWebhook(delivery_id, event) == ReceiveWebhookOf(MaxInflight, delivery_id, event)

\* The check at which receive_webhook answers a request, in the order of lines
\* 165-222: "enqueue" when every check passes.
webhook_stage(req, raw_body, signature, cache, t) ==
    IF req.delivery_id = None THEN "no_delivery"
    ELSE IF req.event = None THEN "no_event"
    ELSE IF ~verify_github_signature(settings.github_webhook_secret, raw_body, signature)
         THEN "bad_signature"
    ELSE IF ~raw_body.valid_json THEN "bad_json"
    ELSE IF is_duplicate(cache, req.delivery_id, t) THEN "duplicate"
    ELSE IF build_job_payload(req.event, raw_body.payload) = "ignore" THEN "ignore"
    ELSE IF build_job_payload(req.event, raw_body.payload) = "invalid" THEN "invalid"
    ELSE "enqueue"

\* The stages that got as far as _is_duplicate, which prunes the cache.
pruning_stages == {"duplicate", "ignore", "invalid", "enqueue"}

\* The response of a request answered before the enqueue.
early_response(stage) ==
    CASE stage = "no_delivery" -> HttpError(400, "Missing X-GitHub-Delivery header")
      [] stage = "no_event" -> HttpError(400, "Missing X-GitHub-Event header")
      [] stage = "bad_signature" -> HttpError(401, "Invalid signature")
      [] stage = "bad_json" -> HttpError(400, "Invalid JSON payload")
      [] stage = "duplicate" -> Ignored("duplicate")
      [] stage = "ignore" -> Ignored("not handled")
      [] stage = "invalid" -> HttpError(400, "Invalid payload structure")

\* Mutant: the delivery is marked once it passed the dedupe step, before the job
\* is built and enqueued.
cache_after_marking(stage, cache, delivery_id, t) ==
    IF stage \in {"ignore", "invalid", "enqueue"}
    THEN mark_delivery(prune_delivery_cache(cache, t), delivery_id, t)
    ELSE IF stage = "duplicate" THEN prune_delivery_cache(cache, t) ELSE cache

\* The delivery cache after a request that was not enqueued.
cache_after(stage, cache, delivery_id, t) ==
    IF stage \in pruning_stages THEN prune_delivery_cache(cache, t) ELSE cache

\* The delivery cache after the job of delivery_id landed in the queue (line 252).
cache_after_enqueue(cache, delivery_id, t) ==
    mark_delivery(prune_delivery_cache(cache, t), delivery_id, t)

\* receive_webhook from the await the i-th suspended request is in to its next
\* one or to the response.  From the body's arrival (lines 162-257) that is the
\* response, unless the queue is full and the put of the enqueue suspends (line
\* 243, queue/__init__.py:70); from there it is the put, the mark with the time
\* of the duplicate check (line 252) and the response.  enqueue_raises:
\* enqueue_review_job raises before it touches the queue (the handler's `except
\* Exception` branch, lines 245-250).
ResumeWebhook(i, raw_body, signature, enqueue_raises) ==
    /\ i \in DOMAIN inflight
    /\ LET req == inflight[i]
           stage == webhook_stage(req, raw_body, signature, delivery_cache, now)
       IN  IF req.checked_at # NoEntry
           THEN /\ QueuePutResumes([delivery_id |-> req.delivery_id,
                                    received_at |-> req.checked_at])
                /\ delivery_cache' = mark_delivery(delivery_cache, req.delivery_id,
                                                   req.checked_at)
                /\ inflight' = Remove(inflight, i)
                /\ answered' = RequestOf(req)
                /\ response' = Accepted
           ELSE IF stage # "enqueue"
           THEN /\ inflight' = Remove(inflight, i)
                /\ answered' = RequestOf(req)
                /\ response' = early_response(stage)
                /\ delivery_cache' = cache_after(stage, delivery_cache, req.delivery_id, now)
                /\ UNCHANGED queue_vars
           ELSE IF enqueue_raises
           THEN /\ inflight' = Remove(inflight, i)
                /\ answered' = RequestOf(req)
                /\ response' = HttpError(500, "Failed to enqueue job")
                /\ delivery_cache' = cache_after(stage, delivery_cache, req.delivery_id, now)
                /\ UNCHANGED queue_vars
           ELSE IF full(queue)
           THEN /\ QueuePutSuspends
                /\ inflight' = [inflight EXCEPT ![i].checked_at = now]
                /\ delivery_cache' = cache_after(stage, delivery_cache, req.delivery_id, now)
                /\ Silent
           ELSE /\ inflight' = Remove(inflight, i)
                /\ answered' = RequestOf(req)
                /\ EnqueueReviewJob([delivery_id |-> req.delivery_id, received_at |-> now])
                /\ delivery_cache' = cache_after_enqueue(delivery_cache, req.delivery_id, now)
                /\ response' = Accepted
    /\ UNCHANGED <<settings, handler, now, ticks, shutdown_wait, shutdown_called>>
    /\ UNCHANGED processor_vars

(***************************************************************************)
(* The clock.                                                              *)
(***************************************************************************)
Tick(dt) ==
    /\ ticks < MaxTicks
    /\ now' = now + dt
    /\ ticks' = ticks + 1
    /\ Silent
    /\ UNCHANGED <<settings, handler, delivery_cache, inflight, jobs, queue, tasks,
                   worker, shutdown_wait, shutdown_called, handed, jstatus>>
    /\ UNCHANGED processor_vars

(***************************************************************************)
(* src/src/github_client.py: installation tokens                           *)
(***************************************************************************)
\* InstallationToken.is_active's default skew_seconds.
SKEW_SECONDS == 60

InstallationIds == {7, 8}

\* expires_at of a token GitHub issues, as seconds from the local clock's now:
\* the code takes the response's value as it is.  With the clock advancing by
\* half an hour, these put expires_at - 60 below, at and above now.
TokenLifetimes == {SKEW_SECONDS, 30 * 60 + SKEW_SECONDS, 60 * 60}

\* No entry in self._installation_tokens; tokens are numbered by the request
\* that fetched them.
NoToken == [token |-> 0, expires_at |-> 0]

NoResult == [installation_id |-> 0, token |-> 0, expires_at |-> 0, source |-> "none"]

TokenResult(id, tok, source) ==
    [installation_id |-> id, token |-> tok.token, expires_at |-> tok.expires_at,
     source |-> source]

\* Mutant: the skew is not subtracted.
is_active_unskewed(tok, t) == tok.expires_at > t

\* InstallationToken.is_active at time t.
is_active(tok, t) == tok.expires_at - SKEW_SECONDS > t

\* No GitHubAPIError.
NoError == [type |-> "", status_code |-> 0, response_body |-> None]

\* GitHubAPIError(message, status_code, response_body).
GitHubAPIError(status_code, response_body) ==
    [type |-> "GitHubAPIError", status_code |-> status_code, response_body |-> response_body]

\* What the access_tokens request can end with instead of a token: a response
\* with status >= 400 and a body that is JSON, other text, or empty; a network
\* error (httpx.RequestError); a success response whose JSON lacks "token" or
\* "expires_at".
TokenFailures ==
    {[status_code |-> c, kind |-> "status", content |-> b] :
        c \in {401, 403, 500}, b \in {"", "json", "text"}}
    \cup {[status_code |-> 201, kind |-> k, content |-> "json"] :
            k \in {"no_token", "no_expires_at"}}
    \cup {[status_code |-> 0, kind |-> "network", content |-> ""]}

\* Mutant: the error of a success response without a token carries no status.
request_error_no_status(failure) ==
    CASE failure.kind = "network" -> GitHubAPIError(0, None)
      [] failure.kind = "status" ->
            GitHubAPIError(failure.status_code,
                           IF failure.content = "" THEN None ELSE failure.content)
      [] OTHER -> GitHubAPIError(0, failure.content)

\* The GitHubAPIError _request (lines 188-225) or _fetch_installation_token
\* (lines 254-269) raises for a failure: the body is the parsed JSON, the text
\* when it is not JSON, None when the response is empty.
request_error(failure) ==
    CASE failure.kind = "network" -> GitHubAPIError(0, None)
      [] failure.kind = "status" ->
            GitHubAPIError(failure.status_code,
                           IF failure.content = "" THEN None ELSE failure.content)
      [] OTHER -> GitHubAPIError(failure.status_code, failure.content)

\* GitHubInstallationClient.__init__: a client starts with no token (a
\* ReviewProcessor invocation creates its own client).
NewGitHubClient ==
    /\ token_call = 0
    /\ installation_tokens' = [id \in InstallationIds |-> NoToken]
    /\ token_result' = NoResult
    /\ token_error' = NoError
    /\ UNCHANGED <<token_call, fetches>>
    /\ UNCHANGED <<service_vars, jules_vars, publish_vars, call_vars, text_vars, list_vars>>

\* get_installation_token up to its return of the cached token or to
\* `await self._fetch_installation_token(...)`, where the request is sent.
get_installation_token(id) ==
    /\ token_call = 0
    /\ token_error' = NoError
    /\ IF installation_tokens[id] # NoToken /\ is_active(installation_tokens[id], now)
       THEN /\ token_result' = TokenResult(id, installation_tokens[id], "cache")
            /\ UNCHANGED <<installation_tokens, token_call, fetches>>
       ELSE /\ fetches < MaxFetches
            /\ fetches' = fetches + 1
            /\ token_call' = id
            /\ token_result' = NoResult
            /\ UNCHANGED installation_tokens

GetInstallationToken(id) ==
    /\ get_installation_token(id)
    /\ UNCHANGED <<service_vars, jules_vars, publish_vars, call_vars, text_vars, list_vars>>

\* GitHub answers with a token: _fetch_installation_token returns it (lines
\* 252-276), get_installation_token stores and returns it (lines 287-289).
fetch_installation_token_returns(lifetime) ==
    /\ token_call # 0
    /\ LET token == [token |-> fetches, expires_at |-> now + lifetime]
       IN  /\ installation_tokens' = [installation_tokens EXCEPT ![token_call] = token]
           /\ token_result' = TokenResult(token_call, token, "fetch")
    /\ token_call' = 0
    /\ UNCHANGED <<fetches, token_error>>

FetchInstallationToken(lifetime) ==
    /\ fetch_installation_token_returns(lifetime)
    /\ UNCHANGED <<service_vars, jules_vars, publish_vars, call_vars, text_vars, list_vars>>

\* The request fails or the answer lacks token or expires_at: GitHubAPIError
\* leaves get_installation_token, nothing is stored.
fetch_installation_token_raises(failure) ==
    /\ token_call # 0
    /\ token_result' = TokenResult(token_call, NoToken, "raised")
    /\ token_error' = request_error(failure)
    /\ token_call' = 0
    /\ UNCHANGED <<installation_tokens, fetches>>

FetchInstallationTokenRaises(failure) ==
    /\ fetch_installation_token_raises(failure)
    /\ UNCHANGED <<service_vars, jules_vars, publish_vars, call_vars, text_vars, list_vars>>

(***************************************************************************)
(* src/src/github_client.py: list_pull_request_files                       *)
(***************************************************************************)
\* params={"per_page": 100, ...} and the test `len(batch) < 100`.
PER_PAGE == 100

\* Pages of the full size GitHub answers in one call of the model.
MaxPages == 3

\* The lengths of the lists GitHub answers with.
BatchSizes == {0, 1, PER_PAGE - 1, PER_PAGE}

\* The i-th entry of the answer to the request for page p.
FileOfPage(p, i) == <<p, i>>

Batch(p, n) == [i \in 1..n |-> FileOfPage(p, i)]

\* The params of a files request.
PageRequest(p) == [per_page |-> PER_PAGE, page |-> p]

\* Mutant: a page of exactly 100 entries ends the loop too.
is_last_batch_or_full(batch) == Len(batch) <= PER_PAGE

\* `if len(batch) < 100: break` (lines 352-353).
is_last_batch(batch) == Len(batch) < PER_PAGE

\* The call sends the request for its current page (lines 335-341).
SendPageRequest(p) ==
    /\ list_pc' = "page"
    /\ list_page' = p
    /\ list_requests' = Append(list_requests, PageRequest(p))

\* list_pull_request_files up to its first await (lines 319-341): with an
\* active cached token that is the request for page 1, otherwise the
\* access_tokens request of get_installation_token.
ListPullRequestFiles(id) ==
    /\ list_pc \in {"idle", "done"}
    /\ get_installation_token(id)
    /\ list_files' = <<>>
    /\ list_batches' = <<>>
    /\ list_result' = "none"
    /\ IF token_call' = 0
       THEN /\ list_pc' = "page"
            /\ list_page' = 1
            /\ list_requests' = <<PageRequest(1)>>
       ELSE /\ list_pc' = "token"
            /\ list_page' = 1
            /\ list_requests' = <<>>
    /\ UNCHANGED <<service_vars, jules_vars, publish_vars, call_vars, text_vars>>

\* GitHub answers the access_tokens request with a token: the call goes on to
\* the request for page 1.
ListTokenFetched(lifetime) ==
    /\ list_pc = "token"
    /\ fetch_installation_token_returns(lifetime)
    /\ SendPageRequest(1)
    /\ UNCHANGED <<list_files, list_batches, list_result>>
    /\ UNCHANGED <<service_vars, jules_vars, publish_vars, call_vars, text_vars>>

\* The access_tokens request fails: the GitHubAPIError leaves the call.
ListTokenRaises(failure) ==
    /\ list_pc = "token"
    /\ fetch_installation_token_raises(failure)
    /\ list_pc' = "done"
    /\ list_result' = "raised"
    /\ UNCHANGED <<list_page, list_files, list_requests, list_batches>>
    /\ UNCHANGED <<service_vars, jules_vars, publish_vars, call_vars, text_vars>>

\* GitHub answers a files request with a list of n entries (lines 342-357): the
\* list is appended to files, and the loop ends or requests the next page.
ListPageResponse(n) ==
    /\ list_pc = "page"
    /\ n >= PER_PAGE => list_page < MaxPages
    /\ LET batch == Batch(list_page, n)
       IN  /\ list_files' = list_files \o batch
           /\ list_batches' = Append(list_batches, batch)
           /\ IF is_last_batch(batch)
              THEN /\ list_pc' = "done"
                   /\ list_result' = "returned"
                   /\ UNCHANGED <<list_page, list_requests>>
              ELSE /\ SendPageRequest(list_page + 1)
                   /\ UNCHANGED list_result
    /\ UNCHANGED <<service_vars, github_vars, jules_vars, publish_vars, call_vars, text_vars>>

\* A files request fails (_request raises GitHubAPIError, lines 188-225) or its
\* answer is not a list (lines 343-349): the error leaves the call, the files
\* fetched so far are dropped with it.
ListPageRaises ==
    /\ list_pc = "page"
    /\ list_pc' = "done"
    /\ list_result' = "raised"
    /\ UNCHANGED <<list_page, list_files, list_requests, list_batches>>
    /\ UNCHANGED <<service_vars, github_vars, jules_vars, publish_vars, call_vars, text_vars>>

(***************************************************************************)
(* src/src/jules_client.py: JulesClient.analyze                            *)
(***************************************************************************)
\* _poll_for_response's defaults.
POLL_ATTEMPTS == 10
DELAY_MS == 1500
SESSION_SLEEP_MS == 2000
MAX_404_RETRIES == 3

\* What the analysis carries (src/src/models/review.py).  An absent severity
\* is "" and an absent or empty summary is "".
Findings ==
    { [path |-> "a.py", start_line |-> 10, severity |-> "minor"],
      [path |-> "b.py", start_line |-> 20, severity |-> "Major"],
      [path |-> "c.py", start_line |-> 30, severity |-> ""] }

FindingLists ==
    {<<>>} \cup {<<f>> : f \in Findings} \cup {<<f, g>> : f \in Findings, g \in Findings}

Analyses == [comments : FindingLists, summary : {"", "ok"}]

\* The analyses _publish_results is called with: those, and the ones with a
\* finding whose start_line the agent gave as 0.
PublishFindings == Findings \cup {[path |-> "d.py", start_line |-> 0, severity |-> "minor"]}

PublishAnalyses ==
    [comments : {<<>>} \cup {<<f>> : f \in PublishFindings}
                    \cup {<<f, g>> : f \in PublishFindings, g \in PublishFindings},
     summary : {"", "ok"}]

\* ReviewAnalysis(): no comments, no summary.
EmptyAnalysis == [comments |-> <<>>, summary |-> ""]

\* The answers to POST /sessions: a session with a name, a body without one,
\* an error status.
SessionAnswers == {"named", "unnamed", "error"}

\* The JSON fragment _extract_json_fragment finds first in a page's agent
\* messages: text that json.loads accepts, with the analysis it parses to, or
\* text it rejects.
Fragments ==
    {[valid_json |-> TRUE, analysis |-> a] : a \in Analyses}
        \cup {[valid_json |-> FALSE, analysis |-> EmptyAnalysis]}

\* The answers to GET activities: a page with no extractable fragment, a page
\* with one, or an error status (403 stands for every status that is not
\* retried).
PollErrors == {"404", "429", "500", "403"}
PollAnswers == {"no_fragment", "fragment"} \cup PollErrors

NoAnalysis == [attempt |-> 0, kind |-> "none", analysis |-> EmptyAnalysis]
JulesResult(kind, n, analysis) == [attempt |-> n, kind |-> kind, analysis |-> analysis]

\* Mutant: a page with a fragment does not end the loop before its last iteration.
poll_outcome_keeps_polling(n, answer) ==
    CASE answer = "fragment" -> IF n < POLL_ATTEMPTS - 1 THEN "sleep" ELSE "return"
      [] answer = "no_fragment" -> IF n < POLL_ATTEMPTS - 1 THEN "sleep" ELSE "fall"
      [] answer = "404" -> IF n < MAX_404_RETRIES THEN "sleep" ELSE "raise"
      [] answer = "429" -> "sleep"
      [] answer = "500" -> IF n < POLL_ATTEMPTS - 1 THEN "sleep" ELSE "raise"
      [] OTHER -> "raise"

\* Mutant: a 404 is retried on one attempt more.
poll_outcome_one_more_404(n, answer) ==
    CASE answer = "fragment" -> "return"
      [] answer = "no_fragment" -> IF n < POLL_ATTEMPTS - 1 THEN "sleep" ELSE "fall"
      [] answer = "404" -> IF n <= MAX_404_RETRIES THEN "sleep" ELSE "raise"
      [] answer = "429" -> "sleep"
      [] answer = "500" -> IF n < POLL_ATTEMPTS - 1 THEN "sleep" ELSE "raise"
      [] OTHER -> "raise"

\* Mutant: a last iteration that finds nothing raises.
poll_outcome_exhaustion_raises(n, answer) ==
    CASE answer = "fragment" -> "return"
      [] answer = "no_fragment" -> IF n < POLL_ATTEMPTS - 1 THEN "sleep" ELSE "raise"
      [] answer = "404" -> IF n < MAX_404_RETRIES THEN "sleep" ELSE "raise"
      [] answer = "429" -> "sleep"
      [] answer = "500" -> IF n < POLL_ATTEMPTS - 1 THEN "sleep" ELSE "raise"
      [] OTHER -> "raise"

\* One iteration of _poll_for_response's loop, from the answer on: "return" (the
\* fragment), "raise", "sleep" (asyncio.sleep, then the next iteration) or
\* "fall" (the last iteration found nothing: the loop ends without sleeping).
poll_outcome(n, answer) ==
    CASE answer = "fragment" -> "return"
      [] answer = "no_fragment" -> IF n < POLL_ATTEMPTS - 1 THEN "sleep" ELSE "fall"
      [] answer = "404" -> IF n < MAX_404_RETRIES THEN "sleep" ELSE "raise"
      [] answer = "429" -> "sleep"
      [] answer = "500" -> IF n < POLL_ATTEMPTS - 1 THEN "sleep" ELSE "raise"
      [] OTHER -> "raise"

\* Mutant: an iteration that ends in a retried error is repeated.
next_attempt_errors_free(n, answer) == IF answer \in PollErrors THEN n ELSE n + 1

\* `for attempt in range(attempts)` (line 189): the value of attempt in the
\* iteration after one that went to sleep, whatever it slept for.
next_attempt(n, answer) == n + 1

\* The time a retried iteration sleeps before the next one, in milliseconds
\* (delay = 1.5 s): lines 212, 232, 239 and 259.
sleep_time(n, answer) ==
    CASE answer = "404" -> DELAY_MS * 2 * (n + 1)
      [] answer = "429" -> DELAY_MS * (2 ^ n)
      [] answer = "500" -> DELAY_MS * (n + 1)
      [] OTHER -> (DELAY_MS * (n + 1)) \div POLL_ATTEMPTS

\* The answers to GET activities as HTTP sends them: a status, what the body
\* says, and for a success whether the page carries a fragment.
Statuses == {200, 400, 403, 404, 429, 500, 503}
Bodies == {"", "404", "NOT_FOUND", "429", "RATE_LIMIT", "500", "INTERNAL"}
Pages == {"no_fragment", "fragment"}

\* `needle in str(exc)` for the message of _raise_for_status,
\* "Failed to list activities: status=<status>, detail=<body>".
in_error_str(needle, status, body) == needle = ToString(status) \/ needle = body

\* What an iteration takes the answer for (lines 193-249): a page, or an error
\* sorted by the texts its message contains, the 404 texts first.
poll_answer(status, body, page) ==
    IF status < 400 THEN page
    ELSE IF in_error_str("404", status, body) \/ in_error_str("NOT_FOUND", status, body)
    THEN "404"
    ELSE IF in_error_str("429", status, body) \/ in_error_str("RATE_LIMIT", status, body)
    THEN "429"
    ELSE IF in_error_str("500", status, body) \/ in_error_str("INTERNAL", status, body)
    THEN "500"
    ELSE "403"

\* What an agent text is to _extract_json_fragment and json.loads: without a
\* brace-delimited span, with a span that is not valid JSON, or with one that is.
TextKinds == {"plain", "braces", "json"}

\* Agent texts in a page of the model.
MaxTexts == 2

AgentPages == UNION {[1..n -> TextKinds] : n \in 0..MaxTexts}

\* _extract_json_fragment (lines 356-372): the span between the braces, None
\* when the text has none.  Nothing parses the span here.
extract_json_fragment(text) == IF text = "plain" THEN None ELSE text

\* Mutant: the scan passes over a span that is not valid JSON.
RECURSIVE first_fragment_valid_only(_)
first_fragment_valid_only(texts) ==
    IF texts = <<>> THEN None
    ELSE IF Head(texts) = "json" THEN Head(texts)
    ELSE first_fragment_valid_only(Tail(texts))

\* The scan of lines 251-255: the fragment of the first text that has one.
RECURSIVE first_fragment(_)
first_fragment(texts) ==
    IF texts = <<>> THEN None
    ELSE IF extract_json_fragment(Head(texts)) # None
    THEN extract_json_fragment(Head(texts))
    ELSE first_fragment(Tail(texts))

page_answer(texts) == IF first_fragment(texts) = None THEN "no_fragment" ELSE "fragment"

\* What json.loads and _parse_analysis make of the fragment returned.
page_fragment(texts) ==
    [valid_json |-> first_fragment(texts) = "json",
     analysis |-> IF first_fragment(texts) = "json"
                  THEN [comments |-> <<>>, summary |-> "ok"]
                  ELSE EmptyAnalysis]

\* _parse_analysis and analyze's test of its result (lines 91-102): the
\* analysis, or "raised" when json.loads rejects the fragment.
parse_analysis(fragment, n) ==
    IF fragment.valid_json
    THEN JulesResult("analysis", n, fragment.analysis)
    ELSE JulesResult("raised", n, EmptyAnalysis)

\* analyze up to `await self._client.post("/sessions", ...)`.  The repository
\* is "owner/repo": the context was built from GitHub's answer to a request
\* for that repository.
AnalyzeStart ==
    /\ jules_pc' = "session"
    /\ attempt' = 0
    /\ session_requests' = 1
    /\ poll_requests' = 0
    /\ not_found' = 0
    /\ slept' = 0
    /\ response_data' = <<>>
    /\ jules_result' = NoAnalysis

Analyze ==
    /\ jules_pc \in {"idle", "done"}
    /\ AnalyzeStart
    /\ UNCHANGED <<service_vars, github_vars, publish_vars, call_vars, text_vars, list_vars>>

\* Mutant: a failed POST /sessions is sent again.
CreateSessionResponseRetries(answer) ==
    /\ jules_pc = "session"
    /\ IF answer = "named"
       THEN jules_pc' = "sleep" /\ slept' = SESSION_SLEEP_MS /\ UNCHANGED session_requests
       ELSE /\ jules_pc' = "session"
            /\ session_requests' = session_requests + 1
            /\ UNCHANGED slept
    /\ UNCHANGED <<attempt, poll_requests, not_found, response_data, jules_result>>
    /\ UNCHANGED <<service_vars, github_vars, publish_vars, call_vars, text_vars, list_vars>>

\* The answer to POST /sessions (lines 57-76): with a session name analyze goes
\* to asyncio.sleep(2.0); without one, or on an error status, it raises.
CreateSessionResponse(answer) ==
    /\ jules_pc = "session"
    /\ IF answer = "named"
       THEN jules_pc' = "sleep" /\ slept' = SESSION_SLEEP_MS /\ UNCHANGED jules_result
       ELSE /\ jules_pc' = "done"
            /\ jules_result' = JulesResult("raised", 0, EmptyAnalysis)
            /\ UNCHANGED slept
    /\ UNCHANGED <<attempt, session_requests, poll_requests, not_found, response_data>>
    /\ UNCHANGED <<service_vars, github_vars, publish_vars, call_vars, text_vars, list_vars>>

\* A sleep ends and the loop sends the request of the next attempt (lines
\* 189-197); after a rate-limited last attempt the loop is over and analyze
\* returns an empty analysis (lines 267, 87-89).
PollSend ==
    /\ jules_pc = "sleep"
    /\ IF attempt < POLL_ATTEMPTS
       THEN /\ jules_pc' = "poll"
            /\ poll_requests' = poll_requests + 1
            /\ UNCHANGED jules_result
       ELSE /\ jules_pc' = "done"
            /\ jules_result' = JulesResult("empty", 0, EmptyAnalysis)
            /\ UNCHANGED poll_requests
    /\ slept' = 0
    /\ UNCHANGED <<attempt, session_requests, not_found, response_data>>
    /\ UNCHANGED <<service_vars, github_vars, publish_vars, call_vars, text_vars, list_vars>>

\* The answer to GET activities (lines 198-267) and, when polling returns, the
\* rest of analyze (lines 87-106); texts are the agent's texts in the page.
PollResponseWith(answer, fragment, texts) ==
    /\ jules_pc = "poll"
    /\ response_data' = texts
    /\ LET outcome == poll_outcome(attempt, answer)
       IN  CASE outcome = "return" ->
                  /\ jules_pc' = "done"
                  /\ jules_result' = parse_analysis(fragment, attempt + 1)
                  /\ UNCHANGED <<attempt, not_found, slept>>
             [] outcome = "raise" ->
                  /\ jules_pc' = "done"
                  /\ jules_result' = JulesResult("raised", attempt + 1, EmptyAnalysis)
                  /\ UNCHANGED <<attempt, not_found, slept>>
             [] outcome = "fall" ->
                  /\ jules_pc' = "done"
                  /\ jules_result' = JulesResult("empty", 0, EmptyAnalysis)
                  /\ UNCHANGED <<attempt, not_found, slept>>
             [] outcome = "sleep" ->
                  /\ jules_pc' = "sleep"
                  /\ attempt' = next_attempt(attempt, answer)
                  /\ not_found' = IF answer = "404" THEN not_found + 1 ELSE not_found
                  /\ slept' = sleep_time(attempt, answer)
                  /\ UNCHANGED jules_result
    /\ UNCHANGED <<session_requests, poll_requests>>
    /\ UNCHANGED <<service_vars, github_vars, publish_vars, call_vars, text_vars, list_vars>>

\* An answer given by what the loop takes it for: the page of a "fragment"
\* answer holds the one text the fragment is extracted from, any other page none.
PollResponse(answer, fragment) ==
    PollResponseWith(answer, fragment,
                     IF answer = "fragment"
                     THEN <<IF fragment.valid_json THEN "json" ELSE "braces">>
                     ELSE <<>>)

\* An answer given by the agent's texts in the page (lines 251-255): the scan
\* returns the first fragment, analyze parses it (lines 91-102).
PollPage(texts) ==
    PollResponseWith(page_answer(texts), page_fragment(texts), texts)

(***************************************************************************)
(* src/src/services/review_processor.py: publishing                        *)
(***************************************************************************)
\* Review contexts (src/src/models/review.py): a push with or without `after`
\* and with or without a commit list, or a pull request.  An absent sha is "".
PushContexts ==
    [kind : {"push"}, after : {"", "sha9"}, commits : {<<>>, <<"sha1", "sha2">>}]

PullRequestContext == [kind |-> "pull_request", after |-> "", commits |-> <<>>]

Contexts == PushContexts \cup {PullRequestContext}

\* str.capitalize and str.lower on the severities of Findings.
capitalize(text) == IF text = "minor" THEN "Minor" ELSE text
lower(text) == IF text = "Major" THEN "major" ELSE text

\* The body of a comment: its text, the severity line of a finding's comment
\* ("" when there is none) and the severity counts of a summary.
Body(text, severity, counts) == [severity |-> severity, text |-> text, counts |-> counts]
NoBody == Body("", "", <<>>)

\* _format_comment_body: the message, then "**Severity:** <Capitalized>" when
\* the finding has a severity.
format_comment_body(finding) ==
    Body("message", IF finding.severity # "" THEN capitalize(finding.severity) ELSE "", <<>>)

\* The severity_counts dict of _format_summary_body, in insertion order.
RECURSIVE severity_counts(_)
severity_counts(findings) ==
    IF findings = <<>> THEN <<>>
    ELSE LET last == findings[Len(findings)]
             key == IF last.severity # "" THEN lower(last.severity) ELSE "unspecified"
             rest == severity_counts(SubSeq(findings, 1, Len(findings) - 1))
         IN  IF \E i \in DOMAIN rest : rest[i].level = key
             THEN [i \in DOMAIN rest |->
                      IF rest[i].level = key
                      THEN [level |-> key, count |-> rest[i].count + 1]
                      ELSE rest[i]]
             ELSE Append(rest, [level |-> key, count |-> 1])

\* _format_summary_body: None without summary and findings; else the summary,
\* then "Findings by severity: <count> <level>, ...".
format_summary_body(summary, findings) ==
    IF summary = "" /\ findings = <<>> THEN NoBody
    ELSE Body(summary, "", severity_counts(findings))

\* A request that creates a commit comment or a pull request review.
GitHubPost(endpoint, commit, path, line, body, inline) ==
    [path |-> path, body |-> body, endpoint |-> endpoint, commit |-> commit,
     line |-> line, inline |-> inline]

\* Mutant: the last commit of the list is preferred to `after`.
target_commit_last_first(context) ==
    IF context.commits # <<>> THEN context.commits[Len(context.commits)]
    ELSE context.after

\* _publish_push_review's target commit: `after`, else the last commit of the
\* list, else none.
target_commit(context) ==
    IF context.after # "" THEN context.after
    ELSE IF context.commits # <<>> THEN context.commits[Len(context.commits)]
    ELSE ""

\* The requests _publish_push_review sends when none fails (lines 170-206).
push_review_posts(context, analysis) ==
    IF target_commit(context) = "" THEN <<>>
    ELSE [i \in DOMAIN analysis.comments |->
              GitHubPost("commit_comment", target_commit(context),
                         analysis.comments[i].path, analysis.comments[i].start_line,
                         format_comment_body(analysis.comments[i]), <<>>)]
         \o (IF analysis.summary # ""
             THEN <<GitHubPost("commit_comment", target_commit(context), "", 0,
                               format_summary_body(analysis.summary, analysis.comments),
                               <<>>)>>
             ELSE <<>>)

\* Mutant: every finding gets an inline comment.
pull_request_review_posts_unfiltered(context, analysis) ==
    LET inline == [i \in DOMAIN analysis.comments |->
                      [path |-> analysis.comments[i].path,
                       body |-> format_comment_body(analysis.comments[i]),
                       line |-> analysis.comments[i].start_line]]
        summary_body == format_summary_body(analysis.summary, analysis.comments)
    IN  IF inline = <<>> /\ summary_body = NoBody THEN <<>>
        ELSE <<GitHubPost("review", "", "", 0, summary_body, inline)>>

\* `if finding.path and finding.start_line` (line 151): an empty path and the
\* line 0 are falsy.
has_position(finding) == finding.path # "" /\ finding.start_line # 0

\* The request _publish_pull_request_review sends (lines 140-168): one review
\* with the inline comments of the findings that have a path and a start line,
\* and the summary body made of all findings.
pull_request_review_posts(context, analysis) ==
    LET positioned == SelectSeq(analysis.comments, has_position)
        inline == [i \in DOMAIN positioned |->
                      [path |-> positioned[i].path,
                       body |-> format_comment_body(positioned[i]),
                       line |-> positioned[i].start_line]]
        summary_body == format_summary_body(analysis.summary, analysis.comments)
    IN  IF inline = <<>> /\ summary_body = NoBody THEN <<>>
        ELSE <<GitHubPost("review", "", "", 0, summary_body, inline)>>

publish_posts(context, analysis) ==
    IF context.kind = "pull_request" THEN pull_request_review_posts(context, analysis)
    ELSE push_review_posts(context, analysis)

\* _publish_results up to its first request, or to its return when there is
\* nothing to send.
PublishStart(context, analysis) ==
    LET posts == publish_posts(context, analysis)
    IN  /\ pub_context' = context
        /\ pub_analysis' = analysis
        /\ created' = <<>>
        /\ IF posts = <<>>
           THEN /\ pub_pc' = "done"
                /\ pub_result' = "returned"
                /\ posted' = <<>>
                /\ to_post' = <<>>
           ELSE /\ pub_pc' = "posting"
                /\ pub_result' = "none"
                /\ posted' = <<Head(posts)>>
                /\ to_post' = Tail(posts)

PublishResults(context, analysis) ==
    /\ pub_pc \in {"idle", "done"}
    /\ PublishStart(context, analysis)
    /\ UNCHANGED <<service_vars, github_vars, jules_vars, call_vars, text_vars, list_vars>>

\* Mutant: a refused request is logged and the next one is sent.
PostResponseGoesOn(answer) ==
    /\ pub_pc = "posting"
    /\ created' = IF answer = "error" THEN created
                  ELSE Append(created, posted[Len(posted)])
    /\ IF to_post = <<>>
       THEN /\ pub_pc' = "done"
            /\ pub_result' = IF answer = "error" THEN "caught" ELSE "returned"
            /\ UNCHANGED <<posted, to_post>>
       ELSE /\ posted' = Append(posted, Head(to_post))
            /\ to_post' = Tail(to_post)
            /\ UNCHANGED <<pub_pc, pub_result>>
    /\ UNCHANGED <<pub_context, pub_analysis>>
    /\ UNCHANGED <<service_vars, github_vars, jules_vars, call_vars, text_vars, list_vars>>

\* GitHub's answer to a request: the next request is sent, or the call returns;
\* a GitHubAPIError is caught and logged by _publish_results (lines 135-138).
\* GitHub has created what it answered "ok" for.
PostResponse(answer) ==
    /\ pub_pc = "posting"
    /\ IF answer = "error"
       THEN /\ pub_pc' = "done"
            /\ pub_result' = "caught"
            /\ UNCHANGED <<posted, created, to_post>>
       ELSE IF to_post = <<>>
       THEN /\ pub_pc' = "done"
            /\ pub_result' = "returned"
            /\ created' = Append(created, posted[Len(posted)])
            /\ UNCHANGED <<posted, to_post>>
       ELSE /\ posted' = Append(posted, Head(to_post))
            /\ created' = Append(created, posted[Len(posted)])
            /\ to_post' = Tail(to_post)
            /\ UNCHANGED <<pub_pc, pub_result>>
    /\ UNCHANGED <<pub_context, pub_analysis>>
    /\ UNCHANGED <<service_vars, github_vars, jules_vars, call_vars, text_vars, list_vars>>

(***************************************************************************)
(* src/src/services/review_context.py: _serialize_files                    *)
(* src/src/jules_client.py: _format_files_for_prompt                       *)
(***************************************************************************)
MaxRawFiles == 17
MAX_FILES == 15

\* File names GitHub may report.
FileNames ==
    <<"f01", "f02", "f03", "f04", "f05", "f06", "f07", "f08", "f09", "f10",
      "f11", "f12", "f13", "f14", "f15", "f16", "f17", "f18">>

\* A file entry of GitHub's answer: the compare endpoint names the file under
\* "filename", others under "path" ("" is a missing key); the patch is absent,
\* at most max_patch_chars long, or longer.
FileEntry(filename, path, patch) == [path |-> path, filename |-> filename, patch |-> patch]

\* The answers the model feeds: n entries named from the r-th name on, under
\* "filename" and "path" in turn; entry m (if any) has neither key, entry l (if
\* any) has a patch longer than max_patch_chars, entry 1 has no patch.
RawFiles(n, r, m, l) ==
    [i \in 1..n |->
        LET name == FileNames[((i - 1 + r) % Len(FileNames)) + 1]
            patch == IF i = l THEN "long" ELSE IF i = 1 THEN "none" ELSE "short"
        IN  IF i = m THEN FileEntry("", "", patch)
            ELSE IF i % 2 = 1 THEN FileEntry(name, "", patch)
            ELSE FileEntry("", name, patch)]

\* FilePatch: the fields the prompt uses.
FilePatch(path, patch) == [path |-> path, patch |-> patch]

\* _serialize_files (lines 15-37): entries without a name are skipped.
RECURSIVE serialize_files(_)
serialize_files(files) ==
    IF files = <<>> THEN <<>>
    ELSE LET file == Head(files)
             path == IF file.filename # "" THEN file.filename ELSE file.path
         IN  IF path = "" THEN serialize_files(Tail(files))
             ELSE <<FilePatch(path, file.patch)>> \o serialize_files(Tail(files))

\* The patch text of a section (lines 326-328).
patch_text(patch) ==
    CASE patch = "none" -> "(no patch available)"
      [] patch = "long" -> "patch[:max_patch_chars] ... (truncated)"
      [] OTHER -> "patch"

\* A section of the prompt's Diffs part: "### File <index>: <path> ..." or
\* "(Truncated to <shown> files of <total> total)".
Section(kind, index, path, patch, total) ==
    [kind |-> kind, path |-> path, patch |-> patch, index |-> index, total |-> total]

\* Mutant: the marker is also appended for a list of exactly max_files files.
format_files_for_prompt_early_marker(files) ==
    LET shown == IF Len(files) < MAX_FILES THEN Len(files) ELSE MAX_FILES
    IN  [i \in 1..shown |->
            Section("file", i, files[i].path, patch_text(files[i].patch), 0)]
        \o (IF Len(files) >= MAX_FILES
            THEN <<Section("truncated", MAX_FILES, "", "", Len(files))>>
            ELSE <<>>)

\* _format_files_for_prompt (lines 323-332), before the sections are joined.
format_files_for_prompt(files) ==
    LET shown == IF Len(files) < MAX_FILES THEN Len(files) ELSE MAX_FILES
    IN  [i \in 1..shown |->
            Section("file", i, files[i].path, patch_text(files[i].patch), 0)]
        \o (IF Len(files) > MAX_FILES
            THEN <<Section("truncated", MAX_FILES, "", "", Len(files))>>
            ELSE <<>>)

NoPrompt == [rendered |-> FALSE, sections |-> <<>>]

\* build_review_context with GitHub's answer: the context's files.
SerializeFiles(files) ==
    /\ files_data' = files
    /\ context_files' = serialize_files(files)
    /\ prompt' = NoPrompt
    /\ UNCHANGED <<comments_data, parsed>>
    /\ UNCHANGED <<service_vars, github_vars, jules_vars, publish_vars, call_vars, list_vars>>

\* _build_prompt's call of _format_files_for_prompt for the context.
FormatFilesForPrompt ==
    /\ ~prompt.rendered
    /\ prompt' = [rendered |-> TRUE, sections |-> format_files_for_prompt(context_files)]
    /\ UNCHANGED <<files_data, context_files, comments_data, parsed>>
    /\ UNCHANGED <<service_vars, github_vars, jules_vars, publish_vars, call_vars, list_vars>>

(***************************************************************************)
(* src/src/jules_client.py: _parse_analysis, the comments array            *)
(***************************************************************************)
MaxComments == 3

\* A JSON value given as a line number: an integer, a string of digits, any
\* other string, null, or an array.
JsonInt(n) == [type |-> "int", value |-> n]
JsonDigits(n) == [type |-> "digits", value |-> n]
JsonText == [type |-> "text", value |-> 0]
JsonNull == [type |-> "null", value |-> 0]
JsonArray == [type |-> "array", value |-> 0]

\* int(value): the integer, or the exception it raises.
int(raw) ==
    CASE raw.type \in {"int", "digits"} -> [value |-> raw.value, error |-> ""]
      [] raw.type = "text" -> [value |-> 0, error |-> "ValueError"]
      [] OTHER -> [value |-> 0, error |-> "TypeError"]

\* An entry of the comments array; "" is a missing path or message.
CommentEntry(path, start_line, end_line, message) ==
    [path |-> path, start_line |-> start_line, end_line |-> end_line, message |-> message]

CommentEntries ==
    { CommentEntry("a.py", JsonInt(10), JsonNull, "m1"),
      CommentEntry("b.py", JsonDigits(20), JsonInt(22), "m2"),
      CommentEntry("c.py", JsonText, JsonNull, "m3"),
      CommentEntry("d.py", JsonNull, JsonInt(5), "m4"),
      CommentEntry("e.py", JsonInt(30), JsonText, "m5"),
      CommentEntry("f.py", JsonInt(40), JsonArray, "m6"),
      CommentEntry("", JsonInt(50), JsonNull, "m7"),
      CommentEntry("h.py", JsonInt(60), JsonNull, "") }

RECURSIVE CommentArrays(_)
CommentArrays(n) ==
    IF n = 0 THEN {<<>>}
    ELSE CommentArrays(n - 1)
            \cup {Append(a, e) : a \in {b \in CommentArrays(n - 1) : Len(b) = n - 1},
                                 e \in CommentEntries}

\* The end_line of a finding that has none.
NoLine == -1

\* What the loop over the array ends with: the findings, or the exception that
\* left it.
ParseResult(raised, found) == [findings |-> found, raised |-> raised]

\* Mutant: only ValueError is caught.
caught_value_error_only(error) == error = "ValueError"

\* `except (TypeError, ValueError): continue` (line 392).
caught(error) == error \in {"TypeError", "ValueError"}

\* The loop of _parse_analysis over the comments array (lines 381-403).
RECURSIVE parse_comments(_)
parse_comments(entries) ==
    IF entries = <<>> THEN ParseResult("", <<>>)
    ELSE LET entry == entries[Len(entries)]
             before == parse_comments(SubSeq(entries, 1, Len(entries) - 1))
             start_line == int(entry.start_line)
             end_line == IF entry.end_line.type = "null"
                         THEN [value |-> NoLine, error |-> ""]
                         ELSE int(entry.end_line)
             error == IF start_line.error # "" THEN start_line.error ELSE end_line.error
         IN  IF before.raised # "" THEN before
             ELSE IF error # ""
             THEN (IF caught(error) THEN before ELSE ParseResult(error, before.findings))
             ELSE IF entry.path = "" \/ entry.message = "" THEN before
             ELSE ParseResult("", Append(before.findings,
                                  [path |-> entry.path, start_line |-> start_line.value,
                                   end_line |-> end_line.value, message |-> entry.message]))

NotParsed == [findings |-> <<>>, raised |-> "not parsed"]

\* _parse_analysis called with a fragment whose comments array is `entries`.
ParseAnalysis(entries) ==
    /\ comments_data' = entries
    /\ parsed' = parse_comments(entries)
    /\ UNCHANGED <<files_data, context_files, prompt>>
    /\ UNCHANGED <<service_vars, github_vars, jules_vars, publish_vars, call_vars, list_vars>>

(***************************************************************************)
(* src/src/services/review_processor.py: ReviewProcessor.__call__          *)
(***************************************************************************)
\* What build_review_context takes from the job's payload: the event, and for a
\* push its `after` sha and commit list.
JobPayloads == Contexts

Raised(step) ==
    /\ proc_pc' = "done"
    /\ proc_outcome' = "raised"
    /\ proc_step' = step

Returned ==
    /\ proc_pc' = "done"
    /\ proc_outcome' = "returned"
    /\ proc_step' = ""

\* __call__ up to its first await (lines 34-58, review_context.py:39-75): the
\* credentials are required, a GitHub client is created, and
\* build_review_context validates the payload and requests the changed files.
ProcessorStart(job_id, payload) ==
    /\ proc_job' = job_id
    /\ IF ~require_code_review_credentials(settings)
       THEN /\ Raised("load_configuration")
            /\ UNCHANGED <<proc_context, github_vars>>
       ELSE /\ installation_tokens' = [id \in InstallationIds |-> NoToken]
            /\ UNCHANGED <<token_call, token_result, token_error, fetches>>
            /\ IF payload.kind = "push" /\ payload.after = ""
               THEN Raised("build_review_context") /\ UNCHANGED proc_context
               ELSE /\ proc_pc' = "context"
                    /\ proc_context' = payload
                    /\ proc_outcome' = "none"
                    /\ proc_step' = ""

ProcessorCall(job_id, payload) ==
    /\ proc_pc \in {"idle", "done"}
    /\ ProcessorStart(job_id, payload)
    /\ UNCHANGED <<service_vars, jules_vars, publish_vars, text_vars, list_vars>>

\* Mutant: the analysis is started whatever the answer.
ContextResponseGoesOn(answer) ==
    /\ proc_pc = "context"
    /\ proc_pc' = "analyze"
    /\ AnalyzeStart
    /\ UNCHANGED <<proc_outcome, proc_step>>
    /\ UNCHANGED <<proc_job, proc_context>>
    /\ UNCHANGED <<service_vars, github_vars, publish_vars, text_vars, list_vars>>

\* GitHub's answer to the request for the changed files (lines 57-67): on a
\* GitHubAPIError the invocation raises; else the context is built and analyze
\* is called (lines 79-88).
ContextResponse(answer) ==
    /\ proc_pc = "context"
    /\ IF answer = "error"
       THEN Raised("build_review_context") /\ UNCHANGED jules_vars
       ELSE /\ proc_pc' = "analyze"
            /\ AnalyzeStart
            /\ UNCHANGED <<proc_outcome, proc_step>>
    /\ UNCHANGED <<proc_job, proc_context>>
    /\ UNCHANGED <<service_vars, github_vars, publish_vars, text_vars, list_vars>>

\* analyze has returned or raised (lines 89-112): a JulesAPIError fails the
\* invocation, an analysis without comments and summary ends it, any other
\* analysis is published.
AnalysisDone ==
    /\ proc_pc = "analyze"
    /\ jules_pc = "done"
    /\ IF jules_result.kind = "raised"
       THEN Raised("jules_analysis") /\ UNCHANGED publish_vars
       ELSE IF jules_result.analysis.comments = <<>> /\ jules_result.analysis.summary = ""
       THEN Returned /\ UNCHANGED publish_vars
       ELSE /\ proc_pc' = "publish"
            /\ PublishStart(proc_context, jules_result.analysis)
            /\ UNCHANGED <<proc_outcome, proc_step>>
    /\ UNCHANGED <<proc_job, proc_context>>
    /\ UNCHANGED <<service_vars, github_vars, jules_vars, text_vars, list_vars>>

\* Mutant: a publishing failure fails the invocation.
PublishDoneRaises ==
    /\ proc_pc = "publish"
    /\ pub_pc = "done"
    /\ IF pub_result = "caught" THEN Raised("publish_results") ELSE Returned
    /\ UNCHANGED <<proc_job, proc_context>>
    /\ UNCHANGED <<service_vars, github_vars, jules_vars, publish_vars, text_vars, list_vars>>

\* _publish_results has returned (lines 106-112).
PublishDone ==
    /\ proc_pc = "publish"
    /\ pub_pc = "done"
    /\ Returned
    /\ UNCHANGED <<proc_job, proc_context>>
    /\ UNCHANGED <<service_vars, github_vars, jules_vars, publish_vars, text_vars, list_vars>>

(***************************************************************************)
(* The consumer with ReviewProcessor as its handler                        *)
(* (src/src/queue/__init__.py: _worker_loop).                             *)
(***************************************************************************)
\* The loop's `await self._handler(job)`: the handler runs to its first await
\* within the step that takes the job from the queue.
HandOver(r, payload) ==
    IF r.handed = <<>>
    THEN UNCHANGED <<github_vars, call_vars>>
    ELSE ProcessorStart(Head(r.handed), payload)

\* WorkerStep with the handler run: a created task starts, or a task waiting in
\* get() is woken by a put.
ConsumerStep(t, payload) ==
    /\ t \in DOMAIN tasks
    /\ ~tasks[t].must_cancel
    /\ \/ tasks[t].state = "new"
       \/ tasks[t].state = "idle" /\ queue # <<>>
    /\ RunLoop(t, queue, jstatus)
    /\ HandOver(worker_loop(queue, jstatus, handler), payload)
    /\ Silent
    /\ UNCHANGED <<settings, handler, now, ticks, delivery_cache, inflight, jobs,
                   worker, shutdown_wait, shutdown_called>>
    /\ UNCHANGED <<jules_vars, publish_vars, text_vars, list_vars>>

\* Mutant: a job whose invocation raised is put back in the queue.
ProcessorDoneRequeue(t, payload) ==
    /\ t \in DOMAIN tasks
    /\ tasks[t].state = "busy"
    /\ ~tasks[t].must_cancel
    /\ proc_pc = "done"
    /\ proc_job = tasks[t].job
    /\ LET q == IF proc_outcome = "raised" THEN Append(queue, tasks[t].job) ELSE queue
           js == [jstatus EXCEPT ![tasks[t].job] = proc_outcome]
       IN  /\ RunLoop(t, q, js)
           /\ HandOver(worker_loop(q, js, handler), payload)
    /\ Silent
    /\ UNCHANGED <<settings, handler, now, ticks, delivery_cache, inflight, jobs,
                   worker, shutdown_wait, shutdown_called>>
    /\ UNCHANGED <<jules_vars, publish_vars, text_vars, list_vars>>

\* HandlerDone with the handler run: the invocation has returned or raised, the
\* loop logs an exception, calls task_done() and takes the next job if one
\* waits (lines 56-66).
ProcessorDone(t, payload) ==
    /\ t \in DOMAIN tasks
    /\ tasks[t].state = "busy"
    /\ ~tasks[t].must_cancel
    /\ proc_pc = "done"
    /\ proc_job = tasks[t].job
    /\ LET js == [jstatus EXCEPT ![tasks[t].job] = proc_outcome]
       IN  /\ RunLoop(t, queue, js)
           /\ HandOver(worker_loop(queue, js, handler), payload)
    /\ Silent
    /\ UNCHANGED <<settings, handler, now, ticks, delivery_cache, inflight, jobs,
                   worker, shutdown_wait, shutdown_called>>
    /\ UNCHANGED <<jules_vars, publish_vars, text_vars, list_vars>>

(***************************************************************************)
(* The system.                                                             *)
(***************************************************************************)
Init ==
    /\ settings \in SettingsValues
    /\ handler = None
    /\ now = 0
    /\ ticks = 0
    /\ delivery_cache = [d \in Deliveries |-> NoEntry]
    /\ inflight = <<>>
    /\ jobs = <<>>
    /\ queue = <<>>
    /\ tasks = <<>>
    /\ worker = 0
    /\ shutdown_wait = 0
    /\ shutdown_called = FALSE
    /\ response = NoResponse
    /\ answered = NoRequest
    /\ handed = <<>>
    /\ jstatus = <<>>
    /\ installation_tokens = [id \in InstallationIds |-> NoToken]
    /\ token_call = 0
    /\ token_result = NoResult
    /\ token_error = NoError
    /\ fetches = 0
    /\ jules_pc = "idle"
    /\ attempt = 0
    /\ session_requests = 0
    /\ poll_requests = 0
    /\ not_found = 0
    /\ slept = 0
    /\ response_data = <<>>
    /\ jules_result = NoAnalysis
    /\ pub_pc = "idle"
    /\ pub_context = PullRequestContext
    /\ pub_analysis = EmptyAnalysis
    /\ posted = <<>>
    /\ created = <<>>
    /\ to_post = <<>>
    /\ pub_result = "none"
    /\ proc_pc = "idle"
    /\ proc_job = 0
    /\ proc_context = PullRequestContext
    /\ proc_outcome = "none"
    /\ proc_step = ""
    /\ files_data = <<>>
    /\ context_files = <<>>
    /\ prompt = NoPrompt
    /\ comments_data = <<>>
    /\ parsed = NotParsed
    /\ list_pc = "idle"
    /\ list_page = 1
    /\ list_files = <<>>
    /\ list_requests = <<>>
    /\ list_batches = <<>>
    /\ list_result = "none"

\* A push webhook as GitHub delivers it: a payload with every field, signed with
\* the configured secret.
GitHubPush ==
    [valid_json |-> TRUE,
     payload |-> [action |-> "closed", installation_id |-> 7, full_name |-> "o/r", number |-> 0]]

\* The serving system within one TTL window: GitHub delivers push webhooks, the
\* consumer runs them, the handler is configured and shutdown is called.
Next ==
    \/ \E d \in Deliveries : ReceiveWebhook(d, "push")
    \/ \E i \in 1..MaxInflight :
          ResumeWebhook(i, GitHubPush,
                        build_github_signature(settings.github_webhook_secret, GitHubPush),
                        FALSE)
    \/ \E h \in {None, "ReviewProcessor"} : ConfigureHandler(h)
    \/ \E t \in 1..MaxTasks : WorkerStep(t)
    \/ \E t \in 1..MaxTasks, o \in job_outcomes : HandlerDone(t, o)
    \/ \E t \in 1..MaxTasks : WorkerCancelled(t)
    \/ ShutdownBegin
    \/ ShutdownEnd

Spec == Init /\ [][Next]_vars

\* The serving system while shutdown is not called and the handler, once
\* configured, stays: the event loop runs every task that is ready, and every
\* handler invocation ends.
LiveNext ==
    \/ \E d \in Deliveries : ReceiveWebhook(d, "push")
    \/ \E i \in 1..MaxInflight :
          ResumeWebhook(i, GitHubPush,
                        build_github_signature(settings.github_webhook_secret, GitHubPush),
                        FALSE)
    \/ ConfigureHandler("ReviewProcessor")
    \/ \E t \in 1..MaxTasks : WorkerStep(t)
    \/ \E t \in 1..MaxTasks, o \in job_outcomes : HandlerDone(t, o)

LiveSpec ==
    /\ Init
    /\ [][LiveNext]_vars
    /\ WF_vars(\E t \in 1..MaxTasks : WorkerStep(t))
    /\ WF_vars(\E t \in 1..MaxTasks, o \in job_outcomes : HandlerDone(t, o))

\* Ingestion over time: any request, with any headers, body and signature, and
\* the clock.  The consumer's steps are left out: they leave the delivery cache,
\* the suspended requests and the jobs created as they are, and no step of
\* receive_webhook reads what they change.
IngestDeliveries == {None, "d1", "d2"}

IngestNext ==
    \/ \E d \in IngestDeliveries, e \in EventHeaders : ReceiveWebhook(d, e)
    \/ \E i \in 1..MaxInflight, b \in RawBodies :
          \E s \in SignatureHeaders(b), f \in BOOLEAN : ResumeWebhook(i, b, s, f)
    \/ \E dt \in TickSteps : Tick(dt)

IngestSpec == Init /\ [][IngestNext]_vars

\* Requests that overlap: up to MaxConcurrent of them are suspended at once,
\* each a valid signed push, while the consumer works and the clock advances.
MaxConcurrent == 2

ConcurrentNext ==
    \/ \E d \in {"d1", "d2"} : ReceiveWebhookOf(MaxConcurrent, d, "push")
    \/ \E i \in 1..MaxConcurrent :
          ResumeWebhook(i, GitHubPush,
                        build_github_signature(settings.github_webhook_secret, GitHubPush),
                        FALSE)
    \/ \E h \in {None, "ReviewProcessor"} : ConfigureHandler(h)
    \/ \E t \in 1..MaxTasks : WorkerStep(t)
    \/ \E t \in 1..MaxTasks, o \in job_outcomes : HandlerDone(t, o)
    \/ \E dt \in TickSteps : Tick(dt)

ConcurrentSpec == Init /\ [][ConcurrentNext]_vars


\* A GitHub client used for one call after the other while the clock advances.
TokenNext ==
    \/ NewGitHubClient
    \/ \E id \in InstallationIds : GetInstallationToken(id)
    \/ \E lifetime \in TokenLifetimes : FetchInstallationToken(lifetime)
    \/ \E failure \in TokenFailures : FetchInstallationTokenRaises(failure)
    \/ \E dt \in TickSteps : Tick(dt)

TokenSpec == Init /\ [][TokenNext]_vars

\* One GitHub client listing the files of pull requests, call after call.
ListNext ==
    \/ \E id \in InstallationIds : ListPullRequestFiles(id)
    \/ \E lifetime \in TokenLifetimes : ListTokenFetched(lifetime)
    \/ \E failure \in TokenFailures : ListTokenRaises(failure)
    \/ \E n \in BatchSizes : ListPageResponse(n)
    \/ ListPageRaises
    \/ \E dt \in TickSteps : Tick(dt)

ListSpec == Init /\ [][ListNext]_vars

\* JulesClient.analyze called again and again, against every feed of answers.
AnalyzeNext ==
    \/ Analyze
    \/ \E answer \in SessionAnswers : CreateSessionResponse(answer)
    \/ PollSend
    \/ \E answer \in PollAnswers, fragment \in Fragments : PollResponse(answer, fragment)

AnalyzeSpec == Init /\ [][AnalyzeNext]_vars

\* JulesClient.analyze against every HTTP answer to its polls.
PollNext ==
    \/ Analyze
    \/ CreateSessionResponse("named")
    \/ PollSend
    \/ \E status \in Statuses, body \in Bodies, page \in Pages :
          PollResponse(poll_answer(status, body, page),
                       [valid_json |-> TRUE, analysis |-> EmptyAnalysis])

PollSpec == Init /\ [][PollNext]_vars

\* JulesClient.analyze against every page of agent texts.
ScanNext ==
    \/ Analyze
    \/ \E answer \in SessionAnswers : CreateSessionResponse(answer)
    \/ PollSend
    \/ \E texts \in AgentPages : PollPage(texts)

ScanSpec == Init /\ [][ScanNext]_vars

\* _publish_results called for every context and analysis, GitHub accepting or
\* refusing each request.
PublishNext ==
    \/ \E context \in Contexts, analysis \in PublishAnalyses :
          PublishResults(context, analysis)
    \/ \E answer \in {"ok", "error"} : PostResponse(answer)

PublishSpec == Init /\ [][PublishNext]_vars

\* A review context built from each of GitHub's file lists, and its prompt.
PromptNext ==
    \/ \E n \in 0..MaxRawFiles, r \in {0, 5} :
          \E m \in {0, 1, 2, n}, l \in {0, 1, n} : SerializeFiles(RawFiles(n, r, m, l))
    \/ FormatFilesForPrompt

PromptSpec == Init /\ [][PromptNext]_vars

\* _parse_analysis called with each comments array of up to MaxComments entries.
ParseNext == \E entries \in CommentArrays(MaxComments) : ParseAnalysis(entries)

ParseSpec == Init /\ [][ParseNext]_vars

\* ReviewProcessor called for one job after the other, against every answer of
\* GitHub and Jules.
ProcessorNext ==
    \/ \E payload \in JobPayloads : ProcessorCall(1, payload)
    \/ \E answer \in {"ok", "error"} : ContextResponse(answer)
    \/ \E answer \in SessionAnswers : CreateSessionResponse(answer)
    \/ PollSend
    \/ \E answer \in PollAnswers, fragment \in Fragments : PollResponse(answer, fragment)
    \/ AnalysisDone
    \/ \E answer \in {"ok", "error"} : PostResponse(answer)
    \/ PublishDone

ProcessorSpec == Init /\ [][ProcessorNext]_vars

\* The serving system with ReviewProcessor as the handler: GitHub delivers push
\* webhooks and the consumer runs each job through the processor.  Jules answers
\* the first poll with a fragment, valid or not; GitHub accepts or refuses each
\* request.
PipelinePayloads ==
    {[kind |-> "push", after |-> "sha9", commits |-> <<"sha1", "sha2">>], PullRequestContext}

PipelineFragments ==
    {[valid_json |-> FALSE, analysis |-> EmptyAnalysis],
     [valid_json |-> TRUE, analysis |-> [comments |-> <<[path |-> "a.py", start_line |-> 10, severity |-> "minor"]>>,
                                     summary |-> "ok"]]}

PipelineNext ==
    \/ \E d \in Deliveries : ReceiveWebhook(d, "push")
    \/ \E i \in 1..MaxInflight :
          ResumeWebhook(i, GitHubPush,
                        build_github_signature(settings.github_webhook_secret, GitHubPush),
                        FALSE)
    \/ ConfigureHandler("ReviewProcessor")
    \/ \E t \in 1..MaxTasks, payload \in PipelinePayloads : ConsumerStep(t, payload)
    \/ \E answer \in {"ok", "error"} : ContextResponse(answer)
    \/ CreateSessionResponse("named")
    \/ PollSend
    \/ \E fragment \in PipelineFragments : PollResponse("fragment", fragment)
    \/ AnalysisDone
    \/ \E answer \in {"ok", "error"} : PostResponse(answer)
    \/ PublishDone
    \/ \E t \in 1..MaxTasks, payload \in PipelinePayloads : ProcessorDone(t, payload)

PipelineSpec == Init /\ [][PipelineNext]_vars

(***************************************************************************)
(* Properties.                                                             *)
(***************************************************************************)
LiveTasks == {t \in DOMAIN tasks : tasks[t].state # "done"}
RunningJobs == {j \in DOMAIN jstatus : jstatus[j] = "running"}

\* The signature GitHub puts on a body: its HMAC under the configured secret.
GoodSignature(raw_body) == <<"sha256", settings.github_webhook_secret, raw_body>>

\* The request carries both headers and its body is JSON: signed with
\* GoodSignature, it gets as far as the dedupe step.
WellFormed(req, raw_body) ==
    /\ req.delivery_id # None
    /\ req.event # None
    /\ raw_body.valid_json

\* A job of this delivery id was enqueued, at some time / within the TTL before t.
PreviouslyAccepted(d) == \E j \in DOMAIN jobs : jobs[j].delivery_id = d
RecentlyAccepted(d, t) ==
    \E j \in DOMAIN jobs :
        jobs[j].delivery_id = d /\ t - jobs[j].received_at <= DELIVERY_TTL_SECONDS

\* What the normalizer is to make of an event, in the spec's words.
Accepts(event, p) ==
    \/ event = "push" /\ p.installation_id # 0 /\ p.full_name # ""
    \/ /\ event = "pull_request"
       /\ p.action \in {"opened", "reopened", "synchronize", "ready_for_review"}
       /\ p.installation_id # 0 /\ p.full_name # "" /\ p.number # 0
Ignores(event, p) ==
    \/ event = "pull_request"
          /\ p.action \notin {"opened", "reopened", "synchronize", "ready_for_review"}
    \/ event \notin {"push", "pull_request"}

NothingEnqueued == jobs' = jobs /\ queue' = queue

\* C1: a well-formed, correctly signed webhook whose delivery id had a job enqueued at most 3600 s
\* ago is answered {ignored, duplicate} and enqueues nothing; once every such job
\* is older than 3600 s, a well-formed acceptable webhook with that id is accepted
\* and enqueued again.
C1_Redelivery ==
    [][\A i \in DOMAIN inflight, b \in RawBodies, f \in BOOLEAN :
            ( /\ answered' # NoRequest
              /\ WellFormed(inflight[i], b)
              /\ ResumeWebhook(i, b, GoodSignature(b), f) ) =>
                /\ RecentlyAccepted(inflight[i].delivery_id, now) =>
                      response' = Ignored("duplicate") /\ NothingEnqueued
                /\ ( /\ PreviouslyAccepted(inflight[i].delivery_id)
                     /\ ~RecentlyAccepted(inflight[i].delivery_id, now)
                     /\ Accepts(inflight[i].event, b.payload)
                     /\ ~f ) =>
                      /\ response' = Accepted
                      /\ jobs' = Append(jobs, [delivery_id |-> inflight[i].delivery_id,
                                               received_at |-> now])
                      /\ queue' = Append(queue, Len(jobs) + 1)]_vars

\* A delivery id is accepted a second time, more than a TTL after the first.
C1_Witness ==
    /\ response = Accepted
    /\ \E j \in DOMAIN jobs :
          /\ j < Len(jobs)
          /\ jobs[j].delivery_id = answered.delivery_id
          /\ jobs[Len(jobs)].delivery_id = answered.delivery_id
          /\ jobs[Len(jobs)].received_at - jobs[j].received_at > DELIVERY_TTL_SECONDS

\* C2: every id in the delivery cache is the id of a job that was enqueued, at
\* the time the cache records; and a webhook that is not accepted (ignored,
\* rejected, or its enqueue raised) adds no id to the cache.
C2_MarkAfterEnqueue ==
    /\ [](\A d \in Deliveries :
            delivery_cache[d] # NoEntry =>
                \E j \in DOMAIN jobs :
                    jobs[j].delivery_id = d /\ jobs[j].received_at = delivery_cache[d])
    /\ [][response'.status # "accepted" =>
            \A d \in Deliveries :
                delivery_cache'[d] # NoEntry => delivery_cache'[d] = delivery_cache[d]]_vars

\* The enqueue of a delivery raised: it is answered 500 and its id is not in the
\* cache, which holds the id of an earlier job.
C2_Witness ==
    /\ response = HttpError(500, "Failed to enqueue job")
    /\ delivery_cache[answered.delivery_id] = NoEntry
    /\ \E d \in Deliveries : delivery_cache[d] # NoEntry

C6_RaiseContinues ==
    /\ [][\A t \in 1..MaxTasks :
            HandlerDone(t, "raised") =>
                /\ tasks'[t].state # "done"
                /\ jstatus'[tasks[t].job] = "raised"
                /\ queue # <<>> =>
                      /\ tasks'[t] = [state |-> "busy", job |-> Head(queue),
                                      must_cancel |-> FALSE]
                      /\ handed' = Append(handed, Head(queue))]_vars
    /\ \A j \in 1..MaxJobs :
          (j \in DOMAIN jstatus /\ jstatus[j] = "queued"
              /\ \E i \in DOMAIN jstatus : jstatus[i] = "raised")
            ~> InSeq(j, handed)

\* A job was handed over after an earlier job's handler raised.
C6_Witness ==
    \E i, j \in DOMAIN jstatus :
        /\ i < j
        /\ jstatus[i] = "raised"
        /\ jstatus[j] \in {"running", "returned"}
        /\ LiveTasks # {}

\* C7: the step that answers "accepted" is the step that puts the job in the
\* queue: the job waits, no handler invocation starts or ends in that step; and a
\* suspended request can always be answered, whatever the consumer is doing.
C7_AckWithoutProcessing ==
    /\ [][response' = Accepted =>
            /\ Len(jobs') = Len(jobs) + 1
            /\ queue' = Append(queue, Len(jobs'))
            /\ jstatus' = Append(jstatus, "queued")
            /\ handed' = handed]_vars
    /\ []((inflight # <<>> /\ Len(jobs) < MaxJobs /\ Len(tasks) < MaxTasks) =>
            ENABLED (\E i \in 1..MaxInflight :
                        ResumeWebhook(i, GitHubPush,
                            build_github_signature(settings.github_webhook_secret, GitHubPush),
                            FALSE)))

\* A webhook is answered "accepted" while an earlier job's handler is running.
C7_Witness ==
    /\ response = Accepted
    /\ \E j \in RunningJobs : j < Len(jobs)
    /\ jstatus[Len(jobs)] = "queued"

\* C8: no job is handed to the handler twice, a job that left the queue never
\* returns to it, and a job that waits while a handler is configured is
\* eventually handed over.
C8_ExactlyOnce ==
    /\ [](\A a, b \in DOMAIN handed : a # b => handed[a] # handed[b])
    /\ [](\A j \in DOMAIN jstatus : jstatus[j] # "queued" => ~InSeq(j, queue))
    /\ [](\A a, b \in DOMAIN queue : a # b => queue[a] # queue[b])
    /\ \A j \in 1..MaxJobs :
          (j \in DOMAIN jstatus /\ jstatus[j] = "queued" /\ handler # None)
            ~> InSeq(j, handed)

\* Three jobs were handed over, one of them raised, and none waits.
C8_Witness ==
    /\ Len(handed) = Len(jobs)
    /\ Len(jobs) >= 2
    /\ \E j \in DOMAIN jstatus : jstatus[j] = "raised"
    /\ \A j \in DOMAIN jstatus : jstatus[j] \in {"returned", "raised"}

\* The order of checks the claim calls canonical.
canonical_stage(req, raw_body, signature, cache, t) ==
    IF ~verify_github_signature(settings.github_webhook_secret, raw_body, signature)
         THEN "bad_signature"
    ELSE IF ~raw_body.valid_json THEN "bad_json"
    ELSE IF req.event = None THEN "no_event"
    ELSE IF req.delivery_id = None THEN "no_delivery"
    ELSE IF is_duplicate(cache, req.delivery_id, t) THEN "duplicate"
    ELSE IF build_job_payload(req.event, raw_body.payload) = "ignore" THEN "ignore"
    ELSE IF build_job_payload(req.event, raw_body.payload) = "invalid" THEN "invalid"
    ELSE "enqueue"

\* C9 as claimed: a webhook with no or a wrong signature, or arriving when no
\* webhook secret is configured, is answered 401 and creates no job.
C9_Claimed ==
    [][/\ \A d \in DeliveryHeaders, e \in EventHeaders :
             (ReceiveWebhook(d, e) /\ settings.github_webhook_secret = None) =>
                 response'.code = 401 /\ NothingEnqueued
       /\ \A i \in 1..MaxInflight, b \in RawBodies :
             \A s \in SignatureHeaders(b), f \in BOOLEAN :
                (ResumeWebhook(i, b, s, f)
                    /\ s # GoodSignature(b)) =>
                    response'.code = 401 /\ NothingEnqueued]_vars

\* C10 as claimed: the response is that of the first check that fails in the
\* order signature, JSON, event header, delivery header, dedupe, normalize.
C10_Claimed ==
    [][\A i \in 1..MaxInflight, b \in RawBodies :
         \A s \in SignatureHeaders(b), f \in BOOLEAN :
            (ResumeWebhook(i, b, s, f)
                /\ canonical_stage(inflight[i], b, s, delivery_cache, now) # "enqueue") =>
                response' = early_response(
                                canonical_stage(inflight[i], b, s, delivery_cache, now))]_vars

\* C11: a well-formed, correctly signed pull_request webhook whose action is
\* outside {opened, reopened, synchronize, ready_for_review} is answered 200
\* "ignored" and enqueues nothing, whichever of installation id, repository
\* full name and pull request number its payload carries.
C11_ClosedIgnored ==
    [][\A i \in DOMAIN inflight, b \in RawBodies, f \in BOOLEAN :
            ( /\ answered' # NoRequest
              /\ WellFormed(inflight[i], b)
              /\ inflight[i].event = "pull_request"
              /\ b.payload.action \notin {"opened", "reopened", "synchronize",
                                          "ready_for_review"}
              /\ ResumeWebhook(i, b, GoodSignature(b), f) ) =>
                /\ response'.code = 200
                /\ response'.status = "ignored"
                /\ NothingEnqueued
                /\ delivery_cache'[inflight[i].delivery_id]
                      = prune_delivery_cache(delivery_cache, now)[inflight[i].delivery_id]]_vars

\* A suspended pull_request webhook of a delivery not seen before is about to be
\* answered "ignored" for a "closed" payload that carries none of the fields,
\* after another job was enqueued.
C11_Witness ==
    /\ jobs # <<>>
    /\ inflight # <<>>
    /\ inflight[1].event = "pull_request"
    /\ inflight[1].delivery_id # None
    /\ ~PreviouslyAccepted(inflight[1].delivery_id)
    /\ ENABLED ( /\ ResumeWebhook(1, [valid_json |-> TRUE, payload |-> EmptyPayload],
                      GoodSignature([valid_json |-> TRUE, payload |-> EmptyPayload]), FALSE)
                 /\ response' = Ignored("not handled")
                 /\ jobs' = jobs )

\* C12 as claimed: every token get_installation_token returns, from the cache or
\* just fetched, has expires_at - 60 s > now at the moment it is returned.
C12_Claimed ==
    [][\A id \in InstallationIds :
         ( \/ GetInstallationToken(id)
           \/ \E lifetime \in TokenLifetimes : FetchInstallationToken(lifetime) ) =>
             (token_result'.source \in {"cache", "fetch"} =>
                 token_result'.expires_at - 60 > now')]_vars

\* C13: while the token cached for an id has expires_at - 60 s > now,
\* get_installation_token returns that token and sends no request; otherwise it
\* sends one request and, when GitHub answers with a token, returns it and
\* replaces the entry of that id, leaving the entries of the other ids as they
\* were.
C13_TokenCache ==
    [][/\ \A id \in InstallationIds :
             GetInstallationToken(id) =>
                 IF installation_tokens[id] # NoToken
                        /\ installation_tokens[id].expires_at - 60 > now
                 THEN /\ token_result' = TokenResult(id, installation_tokens[id], "cache")
                      /\ fetches' = fetches
                      /\ token_call' = 0
                      /\ installation_tokens' = installation_tokens
                 ELSE /\ fetches' = fetches + 1
                      /\ token_call' = id
                      /\ installation_tokens' = installation_tokens
       /\ \A lifetime \in TokenLifetimes :
             FetchInstallationToken(lifetime) =>
                 /\ fetches' = fetches
                 /\ token_result'.source = "fetch"
                 /\ token_result'.installation_id = token_call
                 /\ installation_tokens'[token_call].token = token_result'.token
                 /\ installation_tokens'[token_call].expires_at = token_result'.expires_at
                 /\ token_result'.token # installation_tokens[token_call].token
                 /\ \A other \in InstallationIds \ {token_call} :
                       installation_tokens'[other] = installation_tokens[other]]_vars

\* A token is returned from the cache while the other id holds a token that
\* was fetched later and the clock has advanced since the first fetch.
C13_Witness ==
    /\ token_result.source = "cache"
    /\ now > 0
    /\ \E other \in InstallationIds \ {token_result.installation_id} :
          installation_tokens[other].token > token_result.token


\* C14: the attempts are numbered by the activities requests; when the answer
\* to request k is the first page with an extractable fragment, polling ends
\* with the fragment of attempt k, and no activities request is sent after it.
C14_FirstFragment ==
    /\ [][\A fragment \in Fragments :
            PollResponse("fragment", fragment) =>
                /\ attempt + 1 = poll_requests
                /\ jules_pc' = "done"
                /\ jules_result'.attempt = poll_requests
                /\ jules_result'.kind = IF fragment.valid_json THEN "analysis" ELSE "raised"
                /\ jules_result'.analysis = fragment.analysis]_vars
    /\ [](jules_pc = "done" => ~ENABLED PollSend)
    /\ [][poll_requests' > poll_requests => jules_pc = "sleep" /\ jules_pc' = "poll"]_vars

\* The third request was answered with the first fragment: three requests sent.
C14_Witness ==
    /\ jules_pc = "done"
    /\ jules_result.kind = "analysis"
    /\ jules_result.analysis.comments # <<>>
    /\ jules_result.attempt = 3
    /\ poll_requests = 3
    /\ not_found = 0

\* C15: a 404 answer to one of the first three activities requests is followed
\* by a sleep and the next request; a 404 answer to a later request makes
\* polling raise, and no request follows.
C15_NotFoundRetried ==
    /\ [][\A fragment \in Fragments :
            PollResponse("404", fragment) =>
                IF poll_requests <= 3
                THEN /\ jules_pc' = "sleep"
                     /\ jules_result' = NoAnalysis
                     /\ attempt' = poll_requests
                     /\ attempt' < 10
                ELSE /\ jules_pc' = "done"
                     /\ jules_result'.kind = "raised"
                     /\ attempt' = attempt]_vars
    /\ [][jules_pc = "done" /\ jules_result.kind = "raised" =>
            poll_requests' <= poll_requests \/ jules_pc' = "session"]_vars

\* Requests 1 to 3 were answered 404 and request 4 with a valid fragment.
C15_Witness ==
    /\ jules_pc = "done"
    /\ jules_result.kind = "analysis"
    /\ jules_result.attempt = 4
    /\ poll_requests = 4
    /\ not_found = 3

\* C20: when _publish_results has returned for a push context with a target
\* commit (`after` if set, otherwise the last commit of the list) and no
\* request failed, the requests sent are one commit comment per finding, in the
\* order of the findings, on the finding's path and line of the target commit,
\* followed by one summary comment if and only if the analysis has a summary;
\* while it is still posting, what was sent is a prefix of that.  One finding
\* a.py:10 of severity minor with summary "ok" yields a comment on a.py:10 and a
\* summary comment with "Findings by severity: 1 minor".
C20_PushComments ==
    (pub_pc # "idle" /\ pub_result # "caught" /\ pub_context.kind = "push"
        /\ (pub_context.after # "" \/ pub_context.commits # <<>>)) =>
        LET target == IF pub_context.after # "" THEN pub_context.after
                      ELSE pub_context.commits[Len(pub_context.commits)]
            findings == pub_analysis.comments
            n == Len(findings)
            total == n + (IF pub_analysis.summary # "" THEN 1 ELSE 0)
        IN  /\ Len(posted) <= total
            /\ pub_pc = "done" => Len(posted) = total
            /\ \A i \in DOMAIN posted :
                  /\ posted[i].endpoint = "commit_comment"
                  /\ posted[i].commit = target
                  /\ i <= n => /\ posted[i].path = findings[i].path
                               /\ posted[i].line = findings[i].start_line
                               /\ posted[i].body.counts = <<>>
                  /\ i = n + 1 => /\ posted[i].path = ""
                                  /\ posted[i].body.text = pub_analysis.summary
            /\ ( /\ pub_pc = "done"
                 /\ findings = <<[path |-> "a.py", start_line |-> 10, severity |-> "minor"]>>
                 /\ pub_analysis.summary = "ok" ) =>
                    /\ posted[1].path = "a.py" /\ posted[1].line = 10
                    /\ posted[2].body = [severity |-> "", text |-> "ok",
                                          counts |-> <<[level |-> "minor", count |-> 1]>>]

\* Two findings and a summary were published for a push that has both `after`
\* and a commit list: three comments on `after`.
C20_Witness ==
    /\ pub_pc = "done"
    /\ pub_result = "returned"
    /\ pub_context = [kind |-> "push", after |-> "sha9", commits |-> <<"sha1", "sha2">>]
    /\ Len(pub_analysis.comments) = 2
    /\ pub_analysis.summary = "ok"
    /\ Len(posted) = 3
    /\ posted[3].commit = "sha9"

\* C16: when the last of the POLL_ATTEMPTS polls finds no fragment (or is
\* rate limited) polling ends without an error: analyze returns the empty
\* analysis after exactly POLL_ATTEMPTS requests, and the processor returns
\* normally with no publishing step started and no request to GitHub pending.
C16_ExhaustedIsEmpty ==
    /\ [][/\ jules_pc = "poll"
          /\ attempt = POLL_ATTEMPTS - 1
          /\ \E f \in Fragments : PollResponse("no_fragment", f)
          => /\ jules_pc' = "done"
             /\ jules_result' = JulesResult("empty", 0, EmptyAnalysis)]_vars
    /\ [][/\ jules_pc = "sleep"
          /\ attempt = POLL_ATTEMPTS
          /\ PollSend
          => /\ jules_pc' = "done"
             /\ jules_result' = JulesResult("empty", 0, EmptyAnalysis)
             /\ poll_requests' = poll_requests]_vars
    /\ [](jules_result.kind = "empty" => poll_requests = POLL_ATTEMPTS)
    /\ [][/\ proc_pc = "analyze"
          /\ jules_result.kind = "empty"
          /\ AnalysisDone
          => /\ proc_pc' = "done"
             /\ proc_outcome' = "returned"
             /\ publish_vars' = publish_vars]_vars
    /\ [](pub_pc = "posting" => proc_pc = "publish")

C16_Witness ==
    /\ proc_pc = "done"
    /\ proc_outcome = "returned"
    /\ jules_result.kind = "empty"
    /\ poll_requests = POLL_ATTEMPTS
    /\ pub_pc = "idle"
    /\ posted = <<>>

\* C17: an analyze call sends POST /sessions once, at its start, and never
\* again; when the answer has no session name or is an error status, analyze
\* raises without having polled and without a poll to come, and the processor
\* invocation raises at the step jules_analysis.
C17_SessionOnce ==
    /\ [](session_requests <= 1)
    /\ [][session_requests' # session_requests
          => jules_pc \in {"idle", "done"} /\ jules_pc' = "session"]_vars
    /\ [][\A answer \in SessionAnswers \ {"named"} :
            jules_pc = "session" /\ CreateSessionResponse(answer)
            => /\ jules_pc' = "done"
               /\ jules_result'.kind = "raised"
               /\ session_requests' = 1
               /\ poll_requests' = 0]_vars
    /\ [](jules_pc = "done" /\ jules_result.kind = "raised" /\ jules_result.attempt = 0
            => poll_requests = 0 /\ ~ENABLED PollSend)
    /\ [][/\ proc_pc = "analyze"
          /\ jules_result.kind = "raised"
          /\ AnalysisDone
          => /\ proc_pc' = "done"
             /\ proc_outcome' = "raised"
             /\ proc_step' = "jules_analysis"
             /\ publish_vars' = publish_vars]_vars

C17_Witness ==
    /\ proc_pc = "done"
    /\ proc_outcome = "raised"
    /\ proc_step = "jules_analysis"
    /\ jules_result.kind = "raised"
    /\ jules_result.attempt = 0
    /\ session_requests = 1
    /\ poll_requests = 0

\* C18: when the fragment polling returns is not valid JSON, analyze raises and
\* the processor invocation raises with no publishing step started; the
\* consumer marks the job failed, does not put it back in the queue, takes the
\* next waiting job in the same step, and the failed job is never handed to
\* the handler again.
C18_InvalidJsonFatal ==
    /\ [][/\ jules_pc = "poll"
          /\ PollResponse("fragment", [valid_json |-> FALSE, analysis |-> EmptyAnalysis])
          => /\ jules_pc' = "done"
             /\ jules_result'.kind = "raised"]_vars
    /\ [][/\ proc_pc = "analyze"
          /\ jules_result.kind = "raised"
          /\ AnalysisDone
          => /\ proc_pc' = "done"
             /\ proc_outcome' = "raised"
             /\ publish_vars' = publish_vars]_vars
    /\ [][\A t \in DOMAIN tasks :
            /\ proc_pc = "done"
            /\ proc_outcome = "raised"
            /\ proc_step = "jules_analysis"
            /\ \E payload \in PipelinePayloads : ProcessorDone(t, payload)
            => /\ jstatus'[proc_job] = "raised"
               /\ ~InSeq(proc_job, queue')
               /\ publish_vars' = publish_vars
               /\ tasks'[t].state \in {"idle", "busy"}
               /\ queue # <<>> => /\ tasks'[t].state = "busy"
                                  /\ tasks'[t].job = Head(queue)
                                  /\ proc_job' = Head(queue)]_vars
    /\ [](\A j \in DOMAIN jstatus :
            jstatus[j] = "raised"
            => /\ ~InSeq(j, queue)
               /\ \A t \in DOMAIN tasks : tasks[t].job # j
               /\ Cardinality({i \in DOMAIN handed : handed[i] = j}) = 1)
    /\ [][\A j \in DOMAIN jstatus : jstatus[j] = "raised" => jstatus'[j] = "raised"]_vars

C18_Witness ==
    /\ Len(handed) >= 2
    /\ jstatus[handed[1]] = "raised"
    /\ jules_pc = "done"
    /\ jules_result.kind = "raised"
    /\ jules_result.attempt = 1
    /\ pub_pc = "idle"
    /\ proc_job = handed[2]
    /\ proc_pc = "context"
    /\ jstatus[handed[2]] = "running"

\* C19: when GitHub refuses a request while results are published, the error
\* is caught: no further request is sent, the processor invocation returns
\* normally, the consumer marks the job returned and does not put it back in
\* the queue, and analyze is started only once per invocation.
C19_PublishErrorCaught ==
    /\ [][/\ pub_pc = "posting"
          /\ PostResponse("error")
          => /\ pub_pc' = "done"
             /\ pub_result' = "caught"
             /\ posted' = posted
             /\ call_vars' = call_vars]_vars
    /\ [](pub_result = "caught" => pub_pc = "done")
    /\ [][/\ proc_pc = "publish"
          /\ pub_result = "caught"
          /\ PublishDone
          => /\ proc_pc' = "done"
             /\ proc_outcome' = "returned"]_vars
    /\ [][\A t \in DOMAIN tasks :
            /\ proc_pc = "done"
            /\ proc_outcome = "returned"
            /\ pub_result = "caught"
            /\ \E payload \in PipelinePayloads : ProcessorDone(t, payload)
            => /\ jstatus'[proc_job] = "returned"
               /\ ~InSeq(proc_job, queue')
               /\ posted' = posted]_vars
    /\ [][jules_pc' = "session" /\ jules_pc # "session" => proc_pc = "context"]_vars
    /\ [][pub_pc' = "posting" /\ pub_pc # "posting" => proc_pc = "analyze"]_vars
    /\ [](\A j \in DOMAIN jstatus :
            jstatus[j] = "returned"
            => /\ ~InSeq(j, queue)
               /\ Cardinality({i \in DOMAIN handed : handed[i] = j}) = 1)

C19_Witness ==
    /\ proc_pc = "done"
    /\ proc_outcome = "returned"
    /\ pub_pc = "done"
    /\ pub_result = "caught"
    /\ posted # <<>>
    /\ proc_job \in DOMAIN jstatus
    /\ jstatus[proc_job] = "returned"
    /\ \A t \in DOMAIN tasks : tasks[t].state # "busy"

\* C21: for a pull request, _publish_results sends at most one request, a
\* review; it carries one inline comment, in order, for each finding that has
\* a path and a non-zero start_line, and the summary body made of the summary
\* and all findings; no request is sent when there is neither an inline
\* comment nor a summary body.
C21_OneReview ==
    (pub_pc # "idle" /\ pub_context.kind = "pull_request") =>
        LET findings == pub_analysis.comments
            valid == SelectSeq(findings, LAMBDA f : f.path # "" /\ f.start_line # 0)
            nothing == valid = <<>> /\ pub_analysis.summary = "" /\ findings = <<>>
        IN  /\ Len(posted) <= 1
            /\ nothing => posted = <<>> /\ pub_pc = "done" /\ pub_result = "returned"
            /\ ~nothing =>
                  /\ Len(posted) = 1
                  /\ posted[1].endpoint = "review"
                  /\ Len(posted[1].inline) = Len(valid)
                  /\ \A i \in DOMAIN valid :
                        /\ posted[1].inline[i].path = valid[i].path
                        /\ posted[1].inline[i].line = valid[i].start_line
                  /\ posted[1].body.text = pub_analysis.summary
                  /\ findings # <<>> => posted[1].body.counts # <<>>
            /\ ( /\ Len(findings) = 2
                 /\ findings[1].start_line = 0
                 /\ findings[2].path = "a.py" ) =>
                    /\ Len(posted[1].inline) = 1
                    /\ posted[1].inline[1].path = "a.py"

C21_Witness ==
    /\ pub_pc = "done"
    /\ pub_result = "returned"
    /\ pub_context.kind = "pull_request"
    /\ Len(pub_analysis.comments) = 2
    /\ pub_analysis.comments[1].start_line = 0
    /\ pub_analysis.comments[2].path = "a.py"
    /\ Len(posted) = 1
    /\ Len(posted[1].inline) = 1

\* C22 (as claimed): the processor, called with credentials for a push job
\* that has no `after` sha and no commits, does not raise.
C22_Claimed ==
    [][\A payload \in JobPayloads :
          /\ payload.kind = "push"
          /\ payload.after = ""
          /\ payload.commits = <<>>
          /\ require_code_review_credentials(settings)
          /\ ProcessorCall(1, payload)
          => proc_outcome' # "raised"]_vars

\* C23 (as claimed): a job handed to the handler stays in progress until the
\* handler returns or raises an exception the worker loop catches, whatever
\* else happens, shutdown included.
C23_Claimed ==
    [][\A j \in DOMAIN jstatus :
          jstatus[j] = "running" => jstatus'[j] \in {"running", "returned", "raised"}]_vars

\* C24 (as claimed): no consumer task exists before the first enqueue, and
\* when an enqueue returns exactly one consumer task is alive.
C24_Claimed ==
    /\ [](jobs = <<>> => tasks = <<>>)
    /\ [][jobs' # jobs => Cardinality({t \in DOMAIN tasks' : tasks'[t].state # "done"}) = 1]_vars

\* C25 (as claimed): when shutdown returns, at once or after the wait for the
\* cancelled task, no consumer task is registered, none is alive and no
\* handler invocation is in progress.
C25_Claimed ==
    [][(ShutdownEnd \/ (ShutdownBegin /\ shutdown_wait' = 0))
          => /\ worker' = 0
             /\ \A t \in DOMAIN tasks' : tasks'[t].state = "done"
             /\ \A j \in DOMAIN jstatus' : jstatus'[j] # "running"]_vars

\* C26: the context's files are the named entries of GitHub's answer in their
\* order, and the prompt of a context with n files has one section for each of
\* the first min(n, 15) files, in that order and with that file's path, followed
\* by a truncation marker if and only if n > 15.
C26_PromptPaths ==
    LET named == SelectSeq(files_data, LAMBDA f : f.filename # "" \/ f.path # "")
        n == Len(context_files)
        shown == IF n < 15 THEN n ELSE 15
    IN  /\ n = Len(named)
        /\ \A i \in 1..n : context_files[i].path \in {named[i].filename, named[i].path}
        /\ \A i \in 1..n : context_files[i].path # ""
        /\ prompt.rendered =>
              /\ Len(prompt.sections) = shown + (IF n > 15 THEN 1 ELSE 0)
              /\ \A i \in 1..shown :
                    /\ prompt.sections[i].kind = "file"
                    /\ prompt.sections[i].index = i
                    /\ prompt.sections[i].path = context_files[i].path
              /\ n > 15 => /\ prompt.sections[shown + 1].kind = "truncated"
                            /\ prompt.sections[shown + 1].total = n
              /\ n <= 15 => \A i \in DOMAIN prompt.sections : prompt.sections[i].kind = "file"

C26_Witness ==
    /\ prompt.rendered
    /\ Len(files_data) = 17
    /\ Len(context_files) = 16
    /\ Len(prompt.sections) = 16
    /\ prompt.sections[15].path = context_files[15].path
    /\ prompt.sections[16].kind = "truncated"

C28_Claimed ==
    [][\A body \in Bodies : \A fragment \in Fragments :
          /\ jules_pc = "poll"
          /\ PollResponse(poll_answer(429, body, "no_fragment"), fragment)
          => /\ jules_pc' = "sleep"
             /\ slept' = DELAY_MS * (2 ^ attempt)
             /\ attempt' = attempt + 1]_vars

\* C29 (as claimed): a poll answered with a status from 500 to 599 on an
\* attempt other than the last does not raise: the call sleeps
\* delay * (attempt + 1) and goes on to the next attempt.
C29_Claimed ==
    [][\A status \in {c \in Statuses : c >= 500 /\ c <= 599}, body \in Bodies :
          \A fragment \in Fragments :
              /\ jules_pc = "poll"
              /\ attempt < POLL_ATTEMPTS - 1
              /\ PollResponse(poll_answer(status, body, "no_fragment"), fragment)
              => /\ jules_pc' = "sleep"
                 /\ slept' = DELAY_MS * (attempt + 1)
                 /\ attempt' = attempt + 1]_vars

\* C30 (as claimed): a poll answered with a status of 400 or more that is not
\* 404, 429 or 5xx makes the call raise at once, whatever the body says: no
\* sleep and no further request.
C30_Claimed ==
    [][\A status \in {c \in Statuses : c >= 400 /\ c < 500 /\ c \notin {404, 429}} :
          \A body \in Bodies, fragment \in Fragments :
              /\ jules_pc = "poll"
              /\ PollResponse(poll_answer(status, body, "no_fragment"), fragment)
              => /\ jules_pc' = "done"
                 /\ jules_result'.kind = "raised"
                 /\ slept' = 0
                 /\ poll_requests' = poll_requests]_vars

(***************************************************************************)
(* Listing the files of a pull request                                     *)
(***************************************************************************)
RECURSIVE Concat(_)
Concat(seqs) == IF seqs = <<>> THEN <<>> ELSE Head(seqs) \o Concat(Tail(seqs))

\* C31: list_pull_request_files requests pages 1, 2, 3, ... of 100 entries;
\* while it goes on every page fetched so far had at least 100 entries, and it
\* returns right after the first page with fewer than 100 (no request follows
\* it), with the concatenation of the fetched pages in the order they came.
C31_Pagination ==
    /\ \A k \in DOMAIN list_requests : list_requests[k] = PageRequest(k)
    /\ list_pc = "page" =>
          /\ Len(list_requests) = Len(list_batches) + 1
          /\ \A k \in DOMAIN list_batches : Len(list_batches[k]) >= PER_PAGE
    /\ list_result = "returned" =>
          /\ list_pc = "done"
          /\ Len(list_batches) >= 1
          /\ Len(list_requests) = Len(list_batches)
          /\ \A k \in DOMAIN list_batches :
                Len(list_batches[k]) < PER_PAGE <=> k = Len(list_batches)
          /\ list_files = Concat(list_batches)
          /\ \A k \in DOMAIN list_batches :
                list_batches[k] = Batch(k, Len(list_batches[k]))

\* A total that is an exact multiple of 100: a full page, then an empty one.
C31_Witness ==
    /\ list_result = "returned"
    /\ Len(list_batches) = 2
    /\ list_batches[2] = <<>>
    /\ Len(list_files) = PER_PAGE
    /\ list_requests = <<PageRequest(1), PageRequest(2)>>

(***************************************************************************)
(* A failed installation-token exchange                                    *)
(***************************************************************************)
\* C32: when the access_tokens request fails (a status of 400 or more, a
\* network error, or a success response without token or expires_at),
\* get_installation_token raises a GitHubAPIError that carries the status code
\* and the body of the response there was, and neither the call's first part
\* nor the failure changes the token cache.
C32_FetchFailure ==
    [][/\ \A failure \in TokenFailures :
             token_call # 0 /\ FetchInstallationTokenRaises(failure) =>
                /\ token_result'.source = "raised"
                /\ token_error'.type = "GitHubAPIError"
                /\ failure.kind # "network" =>
                      /\ token_error'.status_code = failure.status_code
                      /\ token_error'.response_body =
                            (IF failure.content = "" THEN None ELSE failure.content)
                /\ failure.kind = "network" =>
                      /\ token_error'.status_code = 0
                      /\ token_error'.response_body = None
                /\ installation_tokens' = installation_tokens
       /\ \A id \in InstallationIds :
             token_call = 0 /\ token_call' = id /\ GetInstallationToken(id) =>
                installation_tokens' = installation_tokens]_vars

\* A fetch for one installation has failed with 403 and a JSON body while the
\* token of the other installation is in the cache.
C32_Witness ==
    /\ token_result.source = "raised"
    /\ token_error = GitHubAPIError(403, "json")
    /\ \E id \in InstallationIds :
          /\ id # token_result.installation_id
          /\ installation_tokens[id] # NoToken
    /\ installation_tokens[token_result.installation_id] = NoToken

(***************************************************************************)
(* Overlapping requests with one delivery id                               *)
(***************************************************************************)
\* C33: no request is ever suspended between its duplicate check and the
\* recording of its id: the step that enqueues a job records the id with the
\* time of the check.  So when one of two suspended requests with the same
\* delivery id enqueues, the other is a duplicate from then on, and two jobs of
\* one delivery id are never enqueued less than the TTL apart.
C33_CheckMarkAtomic ==
    /\ [](\A i \in DOMAIN inflight : inflight[i].checked_at = NoEntry)
    /\ [](\A a, b \in DOMAIN jobs :
            a < b /\ jobs[a].delivery_id = jobs[b].delivery_id =>
                jobs[b].received_at - jobs[a].received_at > DELIVERY_TTL_SECONDS)
    /\ [][jobs' # jobs =>
            /\ jobs'[Len(jobs')].received_at = now
            /\ delivery_cache'[jobs'[Len(jobs')].delivery_id] = now
            /\ \A k \in DOMAIN inflight' :
                  inflight'[k].delivery_id = jobs'[Len(jobs')].delivery_id =>
                     webhook_stage(inflight'[k], GitHubPush,
                                   build_github_signature(settings.github_webhook_secret,
                                                          GitHubPush),
                                   delivery_cache', now) = "duplicate"]_vars

\* One of two overlapping requests with delivery id d1 has just been accepted;
\* the other is still suspended.
C33_Witness ==
    /\ response = Accepted
    /\ answered.delivery_id = "d1"
    /\ jobs # <<>>
    /\ jobs[Len(jobs)].delivery_id = "d1"
    /\ \E k \in DOMAIN inflight : inflight[k].delivery_id = "d1"

(***************************************************************************)
(* The number of polls                                                     *)
(***************************************************************************)
\* C34: a call of analyze sends at most POLL_ATTEMPTS activities requests:
\* every request is the one of a new loop iteration, also after an iteration
\* that ended in a retried 404, 429 or 5xx, and after the last iteration no
\* request follows.
C34_BoundedPolling ==
    /\ [](poll_requests <= POLL_ATTEMPTS)
    /\ [](jules_pc = "poll" => poll_requests = attempt + 1 /\ attempt < POLL_ATTEMPTS)
    /\ [](jules_pc = "sleep" => poll_requests = attempt)
    /\ [][jules_pc = "sleep" /\ attempt = POLL_ATTEMPTS /\ PollSend =>
            jules_pc' = "done" /\ poll_requests' = poll_requests]_vars

\* All ten requests were sent, three of them answered 404 and retried, the last
\* one answered 429.
C34_Witness ==
    /\ jules_pc = "sleep"
    /\ attempt = POLL_ATTEMPTS
    /\ poll_requests = POLL_ATTEMPTS
    /\ not_found = MAX_404_RETRIES

(***************************************************************************)
(* A session that is rate limited throughout                               *)
(***************************************************************************)
\* C35 (as claimed): a poll answered 429 never ends the call, on any attempt
\* and whatever the body of the answer: the call sleeps and goes on, and when
\* the sleep after the tenth attempt is over analyze returns an empty analysis.
C35_Claimed ==
    [][/\ \A body \in Bodies :
             /\ jules_pc = "poll"
             /\ PollResponse(poll_answer(429, body, "no_fragment"),
                             [valid_json |-> TRUE, analysis |-> EmptyAnalysis])
             => /\ jules_result'.kind # "raised"
                /\ jules_pc' = "sleep"
                /\ slept' > 0
       /\ jules_pc = "sleep" /\ attempt = POLL_ATTEMPTS /\ PollSend =>
             /\ jules_pc' = "done"
             /\ jules_result' = JulesResult("empty", 0, EmptyAnalysis)]_vars

(***************************************************************************)
(* The first brace-delimited span                                          *)
(***************************************************************************)
\* C36: when the first agent text of a page that has a brace-delimited span has
\* one that is not valid JSON, polling returns that span: analyze raises on this
\* attempt and sends no further request, also when a later text of the page is
\* valid JSON and whatever later polls would have been answered with.
C36_FirstSpanReturned ==
    [][\A texts \in AgentPages :
          /\ jules_pc = "poll"
          /\ \E i \in DOMAIN texts :
                /\ texts[i] = "braces"
                /\ \A k \in 1..(i - 1) : texts[k] = "plain"
          /\ PollPage(texts)
          => /\ jules_pc' = "done"
             /\ jules_result' = JulesResult("raised", attempt + 1, EmptyAnalysis)
             /\ poll_requests' = poll_requests]_vars

\* The second poll was answered with a progress text holding braces followed by
\* the valid result: the call has raised after two requests.
C36_Witness ==
    /\ jules_pc = "done"
    /\ response_data = <<"braces", "json">>
    /\ jules_result = JulesResult("raised", 2, EmptyAnalysis)
    /\ poll_requests = 2

(***************************************************************************)
(* The order of a job's external steps                                     *)
(***************************************************************************)
\* C37: within an invocation the agent session is requested only by the step in
\* which the context was built, polls are sent only during analysis from a
\* sleep that followed the session or an earlier poll, and posting starts only
\* in the step that got a non-empty analysis.  A failure to build the context
\* ends the invocation with the agent untouched; a failed or empty analysis ends
\* it with nothing posted; outside their step no session, poll or post is open.
C37_StepOrder ==
    /\ [][jules_pc # "session" /\ jules_pc' = "session" =>
            proc_pc = "context" /\ proc_pc' = "analyze"]_vars
    /\ [][jules_pc # "poll" /\ jules_pc' = "poll" =>
            proc_pc = "analyze" /\ jules_pc = "sleep" /\ session_requests = 1]_vars
    /\ [][pub_pc # "posting" /\ pub_pc' = "posting" =>
            /\ proc_pc = "analyze" /\ proc_pc' = "publish"
            /\ jules_pc = "done"
            /\ jules_result.kind = "analysis"
            /\ jules_result.analysis # EmptyAnalysis]_vars
    /\ [][proc_pc = "context" /\ ContextResponse("error") =>
            /\ proc_pc' = "done"
            /\ proc_outcome' = "raised"
            /\ proc_step' = "build_review_context"
            /\ jules_vars' = jules_vars
            /\ publish_vars' = publish_vars]_vars
    /\ [][/\ proc_pc = "analyze"
          /\ jules_result.kind \in {"raised", "empty"} \/ jules_result.analysis = EmptyAnalysis
          /\ AnalysisDone
          => /\ proc_pc' = "done"
             /\ posted' = posted
             /\ pub_pc' = pub_pc]_vars
    /\ [](proc_pc \in {"idle", "context", "publish", "done"} => jules_pc \in {"idle", "done"})
    /\ [](proc_pc \in {"idle", "context", "analyze", "done"} => pub_pc \in {"idle", "done"})

\* An invocation went through every step: the context was built, the session
\* created, the third poll brought an analysis and its posts were all sent.
C37_Witness ==
    /\ proc_pc = "done"
    /\ proc_outcome = "returned"
    /\ session_requests = 1
    /\ poll_requests = 3
    /\ jules_result.kind = "analysis"
    /\ jules_result.analysis.comments # <<>>
    /\ pub_pc = "done"
    /\ pub_result = "returned"
    /\ pub_analysis = jules_result.analysis
    /\ posted # <<>>


\* What _publish_push_review sends for the call in progress, in order.
PushPlan == push_review_posts(pub_context, pub_analysis)

\* C38: publishing the review of a push is not atomic.  When GitHub refuses the
\* k-th request of _publish_push_review, the k-1 comments it created before
\* stay created, no other request is sent (neither the rest of the finding
\* comments nor the summary comment, and none a second time), and the
\* processor returns without an error.
C38_PushNotAtomic ==
    /\ [][pub_pc = "posting" /\ pub_context.kind = "push" /\ PostResponse("error")
            => /\ created' = created
               /\ created = SubSeq(PushPlan, 1, Len(posted) - 1)
               /\ posted' = posted
               /\ to_post' = to_post
               /\ pub_pc' = "done"
               /\ pub_result' = "caught"]_vars
    /\ [](pub_context.kind = "push" /\ pub_pc # "idle"
            => /\ posted \o to_post = PushPlan
               /\ Len(created) <= Len(posted)
               /\ created = SubSeq(posted, 1, Len(created)))
    /\ [][proc_pc = "publish" /\ pub_result = "caught" /\ PublishDone
            => /\ proc_outcome' = "returned"
               /\ publish_vars' = publish_vars]_vars

\* The second of three requests of a push review was refused: one comment
\* stays, the summary comment was never sent, and the processor has returned.
C38_Witness ==
    /\ pub_context.kind = "push"
    /\ pub_result = "caught"
    /\ Len(posted) = 2
    /\ Len(created) = 1
    /\ Len(to_post) >= 1
    /\ pub_analysis.summary # ""
    /\ to_post[Len(to_post)].path = ""
    /\ proc_pc = "done"
    /\ proc_outcome = "returned"


\* C39: when a request has run the dedupe step at time `now`, the delivery
\* cache holds no entry first seen before now - DELIVERY_TTL_SECONDS.  The
\* comparison is strict: an entry exactly DELIVERY_TTL_SECONDS old stays in the
\* cache, and a redelivery of its id at that moment is answered as a duplicate.
C39_PruneStrict ==
    [][\A i \in DOMAIN inflight, b \in RawBodies :
          \A s \in SignatureHeaders(b), f \in BOOLEAN :
            ( /\ answered' # NoRequest
              /\ inflight[i].checked_at = NoEntry
              /\ webhook_stage(inflight[i], b, s, delivery_cache, now) \in pruning_stages
              /\ ResumeWebhook(i, b, s, f) ) =>
                /\ \A d \in Deliveries :
                      /\ delivery_cache'[d] # NoEntry =>
                            delivery_cache'[d] >= now - DELIVERY_TTL_SECONDS
                      /\ ( /\ delivery_cache[d] # NoEntry
                           /\ delivery_cache[d] = now - DELIVERY_TTL_SECONDS ) =>
                            /\ delivery_cache'[d] = delivery_cache[d]
                            /\ inflight[i].delivery_id = d =>
                                  /\ response' = Ignored("duplicate")
                                  /\ NothingEnqueued]_vars

\* A redelivery is answered as a duplicate at the moment its entry is exactly
\* DELIVERY_TTL_SECONDS old; the other id was accepted at that same moment, so
\* the clock has not moved since the answer.
C39_Witness ==
    /\ response = Ignored("duplicate")
    /\ delivery_cache[answered.delivery_id] # NoEntry
    /\ delivery_cache[answered.delivery_id] = now - DELIVERY_TTL_SECONDS
    /\ \E d \in Deliveries : d # answered.delivery_id /\ delivery_cache[d] = now


\* shutdown has returned, or was never needed, and no enqueue has registered a
\* consumer since.
ShutDown == worker = 0 /\ shutdown_wait = 0

\* C40 (as claimed): shutdown discards no queued job.  Once shutdown has
\* returned, the jobs waiting in the queue (one enqueued during shutdown's wait
\* for the cancelled consumer included) stay queued with no consumer alive
\* until a later enqueue restarts the consumer; they are then handed over from
\* the head of the queue, in their order and ahead of the newer jobs.
C40_Claimed ==
    /\ [](ShutDown => LiveTasks = {})
    /\ [][ShutDown /\ jobs' = jobs => queue' = queue /\ handed' = handed]_vars
    /\ [][handed' # handed =>
            /\ queue # <<>>
            /\ handed' = Append(handed, Head(queue))
            /\ queue' = Tail(queue)
            /\ \A i \in DOMAIN queue' : Head(queue) < queue'[i]]_vars

====
